---- MODULE Spec2Model ----
(***************************************************************************)
(* A model of the deepstream.io record client: the JSON path utility       *)
(* (src/record/json-path.js), the Record (src/unnamed/part_000), the       *)
(* RecordHandler registry (src/record/record-handler.js), compareVersions  *)
(* (src/unnamed/part_001) and the Connection state machine                 *)
(* (src/unnamed/part_002).                                                 *)
(*                                                                         *)
(* Conventions.                                                            *)
(*  - A JSON value is a record [k, v, ks, vs]: k is its kind ("u"          *)
(*    undefined, "null", "p" a primitive with value v, "o" an object whose *)
(*    own keys are ks, in Object.keys order, with values vs).  "throw"     *)
(*    stands for an exception leaving the function.                        *)
(*  - A path is the sequence of its tokens; <<>> is the root (undefined    *)
(*    or empty path).                                                      *)
(*  - A version token "<counter>-<nonce>" is the record [c, n] that        *)
(*    splitRev and parseInt make of it (counters in canonical decimal);    *)
(*    nonces are numbered in their lexicographic order.  NullVersion is    *)
(*    the unset version (null).                                            *)
(*  - JavaScript's === between the result of patch/set and the old value   *)
(*    is computed beside the value (PatchSame, the s marks of MPatch): the *)
(*    values handed in are fresh (JSON.parse output, literals), so a       *)
(*    result is the old reference exactly when the code returns it.        *)
(***************************************************************************)
EXTENDS Integers, Sequences, FiniteSets, TLC

(***************************************************************************)
(* JSON values                                                             *)
(***************************************************************************)
U == [k |-> "u", v |-> 0, ks |-> <<>>, vs |-> <<>>]

Null == [k |-> "null", v |-> 0, ks |-> <<>>, vs |-> <<>>]

Throw == [k |-> "throw", v |-> 0, ks |-> <<>>, vs |-> <<>>]

Prim(n) == [k |-> "p", v |-> n, ks |-> <<>>, vs |-> <<>>]

Obj(keys, vals) == [k |-> "o", v |-> 0, ks |-> keys, vs |-> vals]

\* An array: vs holds the elements, a hole reads as undefined.
Arr(vals) == [k |-> "a", v |-> 0, ks |-> <<>>, vs |-> vals]

EMPTY == Obj(<<>>, <<>>)

IsObj(d) == d.k = "o"

IsArray(d) == d.k = "a"

\* typeof d === 'object' && d !== null
IsObject(d) == d.k \in {"o", "a"}

\* JavaScript truthiness of a value (0 is the only falsy primitive modelled).
Truthy(d) == IsObject(d) \/ (d.k = "p" /\ d.v # 0)

\* The tokens that are array indices, in order: Digits[i + 1] is index i.
Digits == <<"0", "1", "2">>

\* !isNaN(token)
IsIndex(token) == \E i \in 1..Len(Digits) : Digits[i] = token

\* The position in vs of the element a numeric token names.
Position(token) == CHOOSE i \in 1..Len(Digits) : Digits[i] = token

HasKey(d, key) == IsObj(d) /\ \E i \in 1..Len(d.ks) : d.ks[i] = key

KeyIndex(d, key) == CHOOSE i \in 1..Len(d.ks) : d.ks[i] = key

\* d[key] for an object or array d: undefined when the key is absent.
Field(d, key) ==
  IF IsArray(d)
  THEN IF IsIndex(key) /\ Position(key) <= Len(d.vs) THEN d.vs[Position(key)] ELSE U
  ELSE IF HasKey(d, key) THEN d.vs[KeyIndex(d, key)] ELSE U

\* Object.keys(d): the indices of an array that are not holes.
Keys(d) ==
  IF IsArray(d)
  THEN LET at == SelectSeq([i \in 1..Len(d.vs) |-> i], LAMBDA i : d.vs[i] # U)
       IN  [n \in 1..Len(at) |-> Digits[at[n]]]
  ELSE d.ks

\* node[key] = val on a (copied) object: in place when the key exists,
\* appended otherwise (insertion order).
Assign(d, key, val) ==
  IF IsArray(d)
  THEN Arr([i \in 1..(IF Position(key) > Len(d.vs) THEN Position(key) ELSE Len(d.vs)) |->
              IF i = Position(key) THEN val
              ELSE IF i <= Len(d.vs) THEN d.vs[i] ELSE U])
  ELSE IF HasKey(d, key)
  THEN Obj(d.ks, [i \in 1..Len(d.vs) |-> IF d.ks[i] = key THEN val ELSE d.vs[i]])
  ELSE Obj(Append(d.ks, key), Append(d.vs, val))

(***************************************************************************)
(* json-path.js: get                                                       *)
(***************************************************************************)
RECURSIVE GetWalk(_, _)
GetWalk(d, toks) ==
  IF toks = <<>> THEN d
  ELSE IF d.k = "u" THEN U
  ELSE IF ~IsObject(d) THEN Throw
  ELSE GetWalk(Field(d, Head(toks)), Tail(toks))

Get(data, path) == GetWalk(IF Truthy(data) THEN data ELSE EMPTY, path)

(***************************************************************************)
(* json-path.js: patch.  Patch is the value returned, PatchSame whether    *)
(* the value returned is oldValue itself (reference-identical).            *)
(***************************************************************************)
\* Object.keys(newValue) without the filter.
DefinedKeys_all(d) == d.ks

\* Object.keys(newValue).filter(key => newValue[key] !== undefined)
DefinedKeys(d) == SelectSeq(d.ks, LAMBDA key : Field(d, key) # U)

\* patch never returns oldValue itself.
PatchSame_never(oldValue, newValue) == FALSE

RECURSIVE PatchSame(_, _)
PatchSame(oldValue, newValue) ==
  IF oldValue.k = "null" \/ newValue.k = "null"
  THEN oldValue.k = "null" /\ newValue.k = "null"
  ELSE IF IsArray(oldValue) /\ IsArray(newValue)
  THEN /\ Len(newValue.vs) = Len(oldValue.vs)
       /\ \A i \in 1..Len(newValue.vs) : PatchSame(oldValue.vs[i], newValue.vs[i])
  ELSE IF ~IsArray(newValue) /\ IsObject(oldValue) /\ IsObject(newValue)
  THEN LET newKeys == DefinedKeys(newValue)
           oldKeys == Keys(oldValue)
       IN  /\ Len(newKeys) = Len(oldKeys)
           /\ \A i \in 1..Len(newKeys) :
                /\ newKeys[i] = oldKeys[i]
                /\ PatchSame(Field(oldValue, newKeys[i]), Field(newValue, newKeys[i]))
  ELSE /\ ~IsObject(oldValue)
       /\ newValue = oldValue

RECURSIVE Patch(_, _)
Patch(oldValue, newValue) ==
  IF oldValue.k = "null" \/ newValue.k = "null" THEN newValue
  ELSE IF IsArray(oldValue) /\ IsArray(newValue)
  THEN IF PatchSame(oldValue, newValue) THEN oldValue
       ELSE Arr([i \in 1..Len(newValue.vs) |->
                   Patch(IF i <= Len(oldValue.vs) THEN oldValue.vs[i] ELSE U,
                         newValue.vs[i])])
  ELSE IF ~IsArray(newValue) /\ IsObject(oldValue) /\ IsObject(newValue)
  THEN LET newKeys == DefinedKeys(newValue)
           vals == [i \in 1..Len(newKeys) |->
                      Patch(Field(oldValue, newKeys[i]), Field(newValue, newKeys[i]))]
       IN  IF PatchSame(oldValue, newValue) THEN oldValue ELSE Obj(newKeys, vals)
  ELSE newValue

(***************************************************************************)
(* json-path.js: set                                                       *)
(***************************************************************************)
RECURSIVE SetWalk(_, _, _)
SetWalk(node, toks, newValue) ==
  IF Len(toks) = 1 THEN Assign(node, Head(toks), newValue)
  ELSE LET child == Field(node, Head(toks))
           next == IF child # U THEN child
                   ELSE IF IsIndex(toks[2]) THEN Arr(<<>>)
                   ELSE EMPTY
       IN  Assign(node, Head(toks), SetWalk(next, Tail(toks), newValue))

Set(data, path, value) ==
  IF path = <<>> THEN Patch(data, value)
  ELSE LET oldValue == Get(data, path)
       IN  IF oldValue = Throw THEN Throw
           ELSE IF PatchSame(oldValue, value) THEN data
           ELSE SetWalk(IF Truthy(data) THEN data ELSE EMPTY, path,
                        Patch(oldValue, value))

\* set never returns data itself.
SetSame_never(data, path, value) == FALSE

\* set(data, path, value) === data
SetSame(data, path, value) ==
  IF path = <<>> THEN PatchSame(data, value)
  ELSE Get(data, path) # Throw /\ PatchSame(Get(data, path), value)

(***************************************************************************)
(* Bounds of the model                                                     *)
(***************************************************************************)
\* Record instances created in a run.
MaxInst == 2

\* Highest version counter carried by a server message.
MaxCounter == 2

\* Frames held in the send queue.
MaxQueue == 3

\* Frames received and not yet processed.
MaxInbound == 1

\* Former endpoints that have not closed yet.
MaxOld == 1

\* Handles held on one record.
MaxUsages == 2

\* options.maxMessagesPerPacket
maxMessagesPerPacket == 2

\* options.maxReconnectAttempts
maxReconnectAttempts == 3

\* options.reconnectIntervalIncrement
reconnectIntervalIncrement == 2

\* options.maxReconnectInterval
maxReconnectInterval == 3

Names == {"r1", "r2"}

Nonces == {1, 2}

(***************************************************************************)
(* utils.js: versions                                                      *)
(***************************************************************************)
NullVersion == [c |-> -1, n |-> 0]

Version(c, n) == [c |-> c, n |-> n]

\* compareVersions without the comparison of the counters: nothing is stale.
compareVersions_never(a, b) == FALSE

\* compareVersions without the tie-break on the nonce.
compareVersions_counterOnly(a, b) ==
  IF a = NullVersion THEN FALSE
  ELSE IF b = NullVersion THEN TRUE
  ELSE a.c > b.c

\* compareVersions(a, b): true when a is at least b, so that b is dropped.
compareVersions(a, b) ==
  IF a = NullVersion THEN FALSE
  ELSE IF b = NullVersion THEN TRUE
  ELSE a.c > b.c \/ (a.c = b.c /\ a.n >= b.n)

(***************************************************************************)
(* Frames (message-builder output) and the connection's constants          *)
(***************************************************************************)
Frame(topic, action, name, version, data, prev) ==
  [topic |-> topic, action |-> action, name |-> name, version |-> version,
   data |-> data, prev |-> prev]

ReadFrame(name) == Frame("RECORD", "READ", name, NullVersion, U, NullVersion)

UnsubscribeFrame(name) ==
  Frame("RECORD", "UNSUBSCRIBE", name, NullVersion, U, NullVersion)

UpdateFrame(name, version, data, prev) ==
  Frame("RECORD", "UPDATE", name, version, data, prev)

\* A frame without record payload: CONNECTION and AUTH traffic.
CtlFrame(topic, action, arg) ==
  Frame(topic, action, arg, NullVersion, U, NullVersion)

States ==
  {"CLOSED", "AWAITING_CONNECTION", "CHALLENGING", "AWAITING_AUTHENTICATION",
   "AUTHENTICATING", "OPEN", "RECONNECTING", "ERROR"}

(***************************************************************************)
(* The state.                                                              *)
(*  conn  the Connection's fields.  endpoint is the readyState of          *)
(*        this._endpoint, old the readyStates of former endpoints that     *)
(*        have not closed yet (their handlers stay bound to the            *)
(*        Connection).  messageSender and heartbeatInterval are "null",    *)
(*        "armed" (handle set, timer pending) or "stale" (handle set,      *)
(*        timer fired or cleared): the code tests the handles for          *)
(*        truthiness.  messages is the part of this._messages not yet      *)
(*        processed.                                                       *)
(*  recs  the Record instances in creation order; an instance's id is its  *)
(*        index.  hasPatchQueue is false when _patchQueue is undefined.    *)
(*        pendingReady counts the pending whenReady promises whose         *)
(*        'ready'/'destroy' listeners are attached, orphanedReady those    *)
(*        whose listeners were removed before they settled.  waiting holds *)
(*        the RecordHandler get and update calls that wait for 'ready',    *)
(*        observers counts the subscribed observers of observe().          *)
(*  recordsMap, recordsVec  the RecordHandler's registry.                  *)
(*  obs   what the last step did: the operation, the subscriber callbacks  *)
(*        invoked (fired), the packets written to the transport (wrote),   *)
(*        the frames passed to send (sent) and those taken from the queue  *)
(*        and written (flushed), the endpoints created, the connection     *)
(*        states and the events emitted, the whenReady promises settled,   *)
(*        the path and value passed to set or get and the value get        *)
(*        returned (got), the silent argument of discard, the calls of the *)
(*        auth callback with their arguments, the connection state and the *)
(*        endpoint's readyState at each write (wroteIn), whether the       *)
(*        heartbeat tick found the tolerance exceeded (expired), the       *)
(*        promises of handler operations settled (settled), and for a call *)
(*        of a jsonPath function the tree it was given (data), what it     *)
(*        returned (result) and whether that is the tree itself (same).    *)
(*  hist  what has happened so far (see the claims).                       *)
(***************************************************************************)
VARIABLES conn, recs, recordsMap, recordsVec, obs, hist

vars == <<conn, recs, recordsMap, recordsVec, obs, hist>>

NoObs(op) ==
  [op |-> op, rec |-> 0, msg |-> U, fired |-> {}, wrote |-> <<>>, created |-> 0,
   states |-> <<>>, events |-> {}, threw |-> FALSE, sent |-> <<>>,
   scheduled |-> <<>>,
   flushed |-> <<>>, destroyed |-> {}, resolved |-> 0, rejected |-> 0,
   path |-> <<>>, value |-> U, got |-> U, silent |-> FALSE,
   authCallbacks |-> <<>>, wroteIn |-> <<>>, expired |-> FALSE,
   settled |-> <<>>, data |-> U, result |-> U, same |-> FALSE,
   handler |-> "", applied |-> <<>>, firedWith |-> {}]

\* The state at the start of an operation.
Now(op) ==
  [conn |-> conn, recs |-> recs, map |-> recordsMap, vec |-> recordsVec,
   obs |-> NoObs(op), hist |-> hist]

Emit(S, ev) == [S EXCEPT !.obs.events = @ \cup {ev}]

(***************************************************************************)
(* Connection: the send buffer                                             *)
(***************************************************************************)
\* The whole queue in one packet.
Packets_single(q) == IF q = <<>> THEN <<>> ELSE <<q>>

RECURSIVE Packets(_)
\* this._queuedMessages.splice(0, maxMessagesPerPacket), until the queue is empty
Packets(q) ==
  IF q = <<>> THEN <<>>
  ELSE IF Len(q) <= maxMessagesPerPacket THEN <<q>>
  ELSE <<SubSeq(q, 1, maxMessagesPerPacket)>>
         \o Packets(SubSeq(q, maxMessagesPerPacket + 1, Len(q)))

RECURSIVE Flatten(_)
Flatten(packets) ==
  IF packets = <<>> THEN <<>> ELSE Head(packets) \o Flatten(Tail(packets))

\* The subscriptions the frames of a packet leave on the server side of the
\* endpoint: a READ subscribes its record, an UNSUBSCRIBE ends that.
RECURSIVE OnWire(_, _)
OnWire(names, packet) ==
  IF packet = <<>> THEN names
  ELSE OnWire(IF Head(packet).action = "READ" THEN names \cup {Head(packet).name}
              ELSE IF Head(packet).action = "UNSUBSCRIBE"
              THEN names \ {Head(packet).name}
              ELSE names,
              Tail(packet))

\* this._endpoint.send(message)
EndpointSend(S, packet) ==
  [S EXCEPT !.obs.wrote = Append(@, packet),
            !.obs.wroteIn = Append(@, <<S.conn.state, S.conn.endpoint>>),
            !.hist.readOnWire = OnWire(@, packet)]

\* The guard of _sendQueuedMessages without the test of the state.
Writable_endpointOnly(S) == S.conn.endpoint = "OPEN"

Writable(S) == S.conn.state = "OPEN" /\ S.conn.endpoint = "OPEN"

_sendQueuedMessages(S) ==
  IF ~Writable(S) THEN S
  ELSE LET packets == Packets(S.conn.queuedMessages)
           W[i \in 0..Len(packets)] ==
             IF i = 0 THEN S ELSE EndpointSend(W[i - 1], packets[i])
       IN  [W[Len(packets)] EXCEPT !.conn.queuedMessages = <<>>,
                                   !.conn.messageSender = "null",
                                   !.obs.flushed = @ \o S.conn.queuedMessages]

send(S, message) ==
  LET S1 == [S EXCEPT !.conn.queuedMessages = Append(@, message),
                      !.obs.sent = Append(@, message)]
  IN  IF Len(S1.conn.queuedMessages) > maxMessagesPerPacket
      THEN _sendQueuedMessages(
             [S1 EXCEPT !.conn.messageSender =
                           IF @ = "armed" THEN "stale" ELSE @])
      ELSE IF S1.conn.messageSender = "null"
      THEN [S1 EXCEPT !.conn.messageSender = "armed"]
      ELSE S1

_reset(S) ==
  LET S1 == IF S.conn.heartbeatInterval # "null"
            THEN [S EXCEPT !.conn.heartbeatInterval = "null",
                           !.conn.lastHeartBeat = FALSE]
            ELSE S
  IN  IF S1.conn.messageSender # "null"
      THEN [S1 EXCEPT !.conn.messageSender = "null",
                      !.conn.queuedMessages = <<>>]
      ELSE S1

(***************************************************************************)
(* Record: destroy and the reaction to connection state changes            *)
(***************************************************************************)
NewRecord(name) ==
  [name |-> name, usages |-> 0, isDestroyed |-> FALSE, isReady |-> FALSE,
   isSubscribed |-> TRUE, hasProvider |-> FALSE, version |-> NullVersion,
   data |-> U, patchQueue |-> <<>>, hasPatchQueue |-> TRUE, subs |-> <<>>,
   pendingReady |-> 0, orphanedReady |-> 0, lastSent |-> 0, waiting |-> <<>>,
   observers |-> 0]

\* Record.prototype.destroy (the pruner's _$destroy and the _destroy of
\* _handleConnectionStateChange).  this.off() removes every listener of the
\* record, those of pending whenReady promises included, before 'destroy' is
\* emitted.
destroy(S, i) ==
  LET S1 == IF S.recs[i].isSubscribed
            THEN send(S, UnsubscribeFrame(S.recs[i].name))
            ELSE S
  IN  [S1 EXCEPT !.recs[i].isDestroyed = TRUE,
                 !.recs[i].isSubscribed = FALSE,
                 !.recs[i].data = U,
                 !.recs[i].patchQueue = <<>>,
                 !.recs[i].hasPatchQueue = TRUE,
                 !.recs[i].subs = <<>>,
                 !.recs[i].orphanedReady = @ + S.recs[i].pendingReady
                                             + Len(S.recs[i].waiting),
                 !.recs[i].pendingReady = 0,
                 !.recs[i].waiting = <<>>,
                 !.obs.destroyed = @ \cup {i}]

_handleConnectionStateChange(S, i) ==
  IF S.recs[i].isDestroyed THEN S
  ELSE IF S.conn.state = "OPEN"
  THEN IF ~S.recs[i].isSubscribed
       THEN [send(S, ReadFrame(S.recs[i].name)) EXCEPT !.recs[i].isSubscribed = TRUE]
       ELSE S
  ELSE IF S.conn.state = "RECONNECTING"
  THEN [S EXCEPT !.recs[i].isSubscribed = FALSE]
  ELSE IF S.conn.state = "CLOSED"
  THEN destroy([S EXCEPT !.recs[i].isSubscribed = FALSE], i)
  ELSE S

\* The client re-emits connectionStateChanged to the records, in the order
\* they were created.
RECURSIVE ClientEmitStateChanged(_, _)
ClientEmitStateChanged(S, i) ==
  IF i > Len(S.recs) THEN S
  ELSE ClientEmitStateChanged(_handleConnectionStateChange(S, i), i + 1)

(***************************************************************************)
(* Connection: the state machine                                           *)
(***************************************************************************)
_setState(S, state) ==
  IF S.conn.state = state THEN S
  ELSE ClientEmitStateChanged(
         [S EXCEPT !.conn.state = state, !.obs.states = Append(@, state)], 1)

\* The error report is deferred by setTimeout(..., 1).
_onError(S) ==
  Emit(_setState(_reset(S), "ERROR"), "CONNECTION_ERROR")

_submit(S, message) ==
  IF S.conn.endpoint = "OPEN" THEN EndpointSend(S, <<message>>)
  ELSE _onError(S)

_sendAuthParams(S) ==
  _submit(_setState(S, "AUTHENTICATING"), CtlFrame("AUTH", "REQUEST", "authParams"))

\* this._endpoint.close(): nothing happens on a closing or closed socket.
EndpointClose(S) ==
  IF S.conn.endpoint \in {"CONNECTING", "OPEN"}
  THEN [S EXCEPT !.conn.endpoint = "CLOSING"]
  ELSE S

_createEndpoint(S) ==
  [S EXCEPT !.conn.old = IF S.conn.endpoint = "CLOSED" THEN @
                         ELSE Append(@, S.conn.endpoint),
            !.conn.endpoint = "CONNECTING",
            !.conn.endpointUrl = S.conn.url,
            !.hist.readOnWire = {},
            !.obs.created = @ + 1]

close(S) ==
  EndpointClose([_reset(_sendQueuedMessages(S)) EXCEPT !.conn.deliberateClose = TRUE])

_clearReconnect(S) ==
  [S EXCEPT !.conn.reconnectTimeout = FALSE, !.conn.reconnectionAttempt = 0]

\* Math.min
Min(a, b) == IF a <= b THEN a ELSE b

\* _tryReconnect with the delay not capped by maxReconnectInterval.
_tryReconnect_uncapped(S) ==
  IF S.conn.reconnectTimeout THEN S
  ELSE IF S.conn.reconnectionAttempt < maxReconnectAttempts
  THEN [_setState(S, "RECONNECTING") EXCEPT
          !.conn.reconnectTimeout = TRUE,
          !.conn.reconnectionAttempt = @ + 1,
          !.obs.scheduled =
             Append(@, reconnectIntervalIncrement * S.conn.reconnectionAttempt)]
  ELSE Emit(close(_clearReconnect(S)), "MAX_RECONNECTION_ATTEMPTS_REACHED")

\* obs.scheduled holds the delays of the timers the step set.
_tryReconnect(S) ==
  IF S.conn.reconnectTimeout THEN S
  ELSE IF S.conn.reconnectionAttempt < maxReconnectAttempts
  THEN [_setState(S, "RECONNECTING") EXCEPT
          !.conn.reconnectTimeout = TRUE,
          !.conn.reconnectionAttempt = @ + 1,
          !.obs.scheduled =
             Append(@, Min(maxReconnectInterval,
                           reconnectIntervalIncrement * S.conn.reconnectionAttempt))]
  ELSE Emit(close(_clearReconnect(S)), "MAX_RECONNECTION_ATTEMPTS_REACHED")

_tryOpen(S) ==
  [_createEndpoint([S EXCEPT !.conn.url = "original"]) EXCEPT
     !.conn.reconnectTimeout = FALSE]

_onOpen(S) ==
  LET S1 == _clearReconnect(S)
  IN  _setState([S1 EXCEPT !.conn.lastHeartBeat = TRUE,
                           !.conn.orphanIntervals =
                              IF S1.conn.heartbeatInterval = "armed" THEN @ + 1 ELSE @,
                           !.conn.heartbeatInterval = "armed"],
                "AWAITING_CONNECTION")

_onClose(S) ==
  LET S1 == _reset(S)
  IN  IF S1.conn.redirecting
      THEN _createEndpoint([S1 EXCEPT !.conn.redirecting = FALSE])
      ELSE IF S1.conn.deliberateClose THEN _setState(S1, "CLOSED")
      ELSE _tryReconnect(S1)

\* expired: Date.now() - this._lastHeartBeat > heartbeatInterval * 3
_checkHeartBeat(S, expired) ==
  IF expired
  THEN Emit(EndpointClose([S EXCEPT !.conn.heartbeatInterval =
                                       IF @ = "armed" THEN "stale" ELSE @]),
            "HEARTBEAT_NOT_RECEIVED")
  ELSE _submit(S, CtlFrame("CONNECTION", "PING", ""))

_handleConnectionResponse(S, message) ==
  IF message.action = "PING"
  THEN _submit([S EXCEPT !.conn.lastHeartBeat = TRUE], CtlFrame("CONNECTION", "PONG", ""))
  ELSE IF message.action = "PONG"
  THEN [S EXCEPT !.conn.lastHeartBeat = TRUE]
  ELSE IF message.action = "ACK"
  THEN LET S1 == _setState(S, "AWAITING_AUTHENTICATION")
       IN  IF S1.conn.authParams THEN _sendAuthParams(S1) ELSE S1
  ELSE IF message.action = "CHALLENGE"
  THEN _submit(_setState(S, "CHALLENGING"),
               CtlFrame("CONNECTION", "CHALLENGE_RESPONSE", "original"))
  ELSE IF message.action = "REJECTION"
  THEN close([S EXCEPT !.conn.challengeDenied = TRUE])
  ELSE IF message.action = "REDIRECT"
  THEN EndpointClose([S EXCEPT !.conn.url = message.name,
                               !.conn.redirecting = TRUE])
  ELSE IF message.action = "ERROR" /\ message.name = "CONNECTION_AUTHENTICATION_TIMEOUT"
  THEN Emit([S EXCEPT !.conn.deliberateClose = TRUE,
                      !.conn.connectionAuthenticationTimeout = TRUE],
            "CONNECTION_AUTHENTICATION_TIMEOUT")
  ELSE S

\* The data of a frame without data is "".
_getAuthData(data) == IF data = "" THEN "null" ELSE data

_handleAuthResponse(S, message) ==
  IF message.action = "ERROR"
  THEN LET S1 == IF message.name = "TOO_MANY_AUTH_ATTEMPTS"
                 THEN [S EXCEPT !.conn.deliberateClose = TRUE,
                                !.conn.tooManyAuthAttempts = TRUE]
                 ELSE _setState(S, "AWAITING_AUTHENTICATION")
       IN  IF S1.conn.authCallback
           THEN Emit([S1 EXCEPT !.obs.authCallbacks =
                                   Append(@, <<FALSE, _getAuthData(message.name)>>)],
                     "authCallback(false)")
           ELSE S1
  ELSE IF message.action = "ACK"
  THEN LET S1 == _setState(S, "OPEN")
       IN  _sendQueuedMessages(
             IF S1.conn.authCallback
             THEN Emit([S1 EXCEPT !.obs.authCallbacks =
                                     Append(@, <<TRUE, _getAuthData(message.name)>>)],
                       "authCallback(true)")
             ELSE S1)
  ELSE S

\* authenticate without the test of the terminal flags.
authenticate_unguarded(S) ==
  LET S1 == [S EXCEPT !.conn.authParams = TRUE, !.conn.authCallback = TRUE]
  IN  IF S1.conn.deliberateClose /\ S1.conn.state = "CLOSED"
      THEN [_createEndpoint(S1) EXCEPT !.conn.deliberateClose = FALSE]
      ELSE IF S1.conn.state = "AWAITING_AUTHENTICATION"
      THEN _sendAuthParams(S1)
      ELSE S1

authenticate(S) ==
  LET S1 == [S EXCEPT !.conn.authParams = TRUE, !.conn.authCallback = TRUE]
  IN  IF \/ S1.conn.tooManyAuthAttempts
         \/ S1.conn.challengeDenied
         \/ S1.conn.connectionAuthenticationTimeout
      THEN Emit(S1, "IS_CLOSED")
      ELSE IF S1.conn.deliberateClose /\ S1.conn.state = "CLOSED"
      THEN [_createEndpoint(S1) EXCEPT !.conn.deliberateClose = FALSE]
      ELSE IF S1.conn.state = "AWAITING_AUTHENTICATION"
      THEN _sendAuthParams(S1)
      ELSE S1

(***************************************************************************)
(* Reference identity after a change.  A marked value carries, on every     *)
(* node, s: whether the node is the very node found at the same place in    *)
(* the old value.                                                           *)
(***************************************************************************)
RECURSIVE MarkAll(_, _)
MarkAll(d, s) ==
  [k |-> d.k, v |-> d.v, ks |-> d.ks,
   vs |-> [i \in 1..Len(d.vs) |-> MarkAll(d.vs[i], s)], s |-> s]

MObj(keys, vals) == [k |-> "o", v |-> 0, ks |-> keys, vs |-> vals, s |-> FALSE]

MAssign(d, key, val) ==
  IF HasKey(d, key)
  THEN MObj(d.ks, [i \in 1..Len(d.vs) |-> IF d.ks[i] = key THEN val ELSE d.vs[i]])
  ELSE MObj(Append(d.ks, key), Append(d.vs, val))

RECURSIVE MPatch(_, _)
MPatch(oldValue, newValue) ==
  IF PatchSame(oldValue, newValue) THEN MarkAll(oldValue, TRUE)
  ELSE IF IsObj(oldValue) /\ IsObj(newValue) /\ newValue.k # "null"
  THEN LET newKeys == DefinedKeys(newValue)
       IN  MObj(newKeys,
                [i \in 1..Len(newKeys) |->
                   MPatch(Field(oldValue, newKeys[i]), Field(newValue, newKeys[i]))])
  ELSE MarkAll(newValue, FALSE)

RECURSIVE MSetWalk(_, _, _)
MSetWalk(node, toks, newValue) ==
  IF Len(toks) = 1 THEN MAssign(node, Head(toks), newValue)
  ELSE LET child == Field(node, Head(toks))
           next == IF child.k # "u" THEN child ELSE MarkAll(EMPTY, FALSE)
       IN  MAssign(node, Head(toks), MSetWalk(next, Tail(toks), newValue))

\* set(data, path, value), marked against data (the get of set did not throw).
MSet(data, path, value) ==
  IF path = <<>> THEN MPatch(data, value)
  ELSE IF SetSame(data, path, value) THEN MarkAll(data, TRUE)
  ELSE MSetWalk(MarkAll(IF Truthy(data) THEN data ELSE EMPTY, TRUE), path,
                MPatch(Get(data, path), value))

\* get(newData, path) === get(oldData, path), newData marked against oldData.
\* A falsy root reads as the shared EMPTY object.
RefEq(newData, oldData, path) ==
  LET a == GetWalk(IF Truthy(newData) THEN newData
                   ELSE MarkAll(EMPTY, ~Truthy(oldData)), path)
      b == Get(oldData, path)
  IN  IF a.k = "o" THEN a.s /\ b.k = "o" ELSE a.k = b.k /\ a.v = b.v

\* JSON.stringify followed by JSON.parse: keys whose value is undefined are
\* not sent.
RECURSIVE Serialize(_)
Serialize(d) ==
  IF ~IsObj(d) THEN d
  ELSE LET keys == DefinedKeys(d)
       IN  Obj(keys, [i \in 1..Len(keys) |-> Serialize(Field(d, keys[i]))])

(***************************************************************************)
(* Record: local writes and inbound updates                                *)
(***************************************************************************)
\* The subscribed paths whose callbacks an _applyChange invokes, in
\* subscription order, up to the first path whose get throws.
RECURSIVE EmitPaths(_, _, _)
EmitPaths(newData, oldData, paths) ==
  IF paths = <<>> THEN {}
  ELSE IF GetWalk(IF Truthy(newData) THEN newData ELSE EMPTY, Head(paths)) = Throw
          \/ Get(oldData, Head(paths)) = Throw
  THEN {}
  ELSE (IF RefEq(newData, oldData, Head(paths)) THEN {} ELSE {Head(paths)})
         \cup EmitPaths(newData, oldData, Tail(paths))

ApplyThrows(newData, oldData, paths) ==
  \E n \in 1..Len(paths) :
     \/ GetWalk(IF Truthy(newData) THEN newData ELSE EMPTY, paths[n]) = Throw
     \/ Get(oldData, paths[n]) = Throw

\* The value of a marked value.
RECURSIVE Strip(_)
Strip(m) ==
  [k |-> m.k, v |-> m.v, ks |-> m.ks, vs |-> [i \in 1..Len(m.vs) |-> Strip(m.vs[i])]]

\* _applyChange(newData), newData marked against this._data.  A callback is
\* invoked with this.get(path), read from this._data after the assignment.
\* this._eventEmitter.emit(path, this.get(path)) for the paths emitted; S is
\* the program after this._data = newData.
EmitAll(S, i, emitted) ==
  [S EXCEPT !.obs.fired = @ \cup {<<i, p>> : p \in emitted},
            !.obs.firedWith = @ \cup {<<i, p, Get(S.recs[i].data, p)>> : p \in emitted}]

_applyChange(S, i, newData) ==
  IF S.recs[i].isDestroyed THEN S
  ELSE EmitAll([S EXCEPT !.recs[i].data = Strip(newData),
                         !.obs.applied = Append(@, [rec |-> i, newData |-> newData,
                                                    oldData |-> S.recs[i].data]),
                         !.obs.threw = ApplyThrows(newData, S.recs[i].data,
                                                   S.recs[i].subs)],
               i, EmitPaths(newData, S.recs[i].data, S.recs[i].subs))

\* _dispatchUpdate sending the new version as the previous one too.
_dispatchUpdate_samePrev(S, i, nonce) ==
  LET r == S.recs[i]
      start == IF r.version # NullVersion THEN r.version.c ELSE 0
      version == Version(start + 1, nonce)
  IN  [send(S, UpdateFrame(r.name, version, Serialize(r.data), version)) EXCEPT
         !.recs[i].version = version,
         !.recs[i].lastSent = version.c]

_dispatchUpdate(S, i, nonce) ==
  LET r == S.recs[i]
      start == IF r.version # NullVersion THEN r.version.c ELSE 0
      version == Version(start + 1, nonce)
  IN  [send(S, UpdateFrame(r.name, version, Serialize(r.data), r.version)) EXCEPT
         !.recs[i].version = version,
         !.recs[i].lastSent = version.c]

\* Record.prototype.get; path <<>> is get().
RecordGet(S, i, path) ==
  IF S.recs[i].isDestroyed \/ Get(S.recs[i].data, path) = Throw
  THEN [S EXCEPT !.obs.threw = TRUE]
  ELSE [S EXCEPT !.obs.got = Get(S.recs[i].data, path)]

\* The end of Record.prototype.set: S is the program after _applyChange.
UpdateIfReady(S, i, isReady, nonce) ==
  IF S.obs.threw \/ ~isReady THEN S ELSE _dispatchUpdate(S, i, nonce)

\* Record.prototype.set; path <<>> is the one-argument form.
RecordSet(S, i, path, value, nonce) ==
  LET r == S.recs[i]
      S1 == IF path # <<>> /\ r.hasPatchQueue
            THEN [S EXCEPT !.recs[i].patchQueue = Append(@, [path |-> path, data |-> value])]
            ELSE [S EXCEPT !.recs[i].patchQueue = <<>>, !.recs[i].hasPatchQueue = FALSE]
  IN  IF r.isDestroyed \/ (path = <<>> /\ value.k \notin {"o", "null"})
      THEN [S EXCEPT !.obs.threw = TRUE]
      ELSE IF Set(r.data, path, value) = Throw
      THEN [S1 EXCEPT !.obs.threw = TRUE]
      ELSE IF SetSame(r.data, path, value) THEN S1
      ELSE UpdateIfReady(_applyChange(S1, i, MSet(r.data, path, value)),
                         i, r.isReady, nonce)

\* _applyUpdate without this.version = version.
_applyUpdate_keepVersion(S, i, message) ==
  IF compareVersions(S.recs[i].version, message.version) THEN S
  ELSE _applyChange(S, i, MSet(S.recs[i].data, <<>>, message.data))

_applyUpdate(S, i, message) ==
  IF compareVersions(S.recs[i].version, message.version) THEN S
  ELSE _applyChange([S EXCEPT !.recs[i].version = message.version], i,
                    MSet(S.recs[i].data, <<>>, message.data))

\* The queued writes applied in order on top of value (Throw when one fails).
RECURSIVE ReplayQueue(_, _)
ReplayQueue(value, queue) ==
  IF queue = <<>> \/ value = Throw THEN value
  ELSE ReplayQueue(Set(value, Head(queue).path, Head(queue).data), Tail(queue))

\* Whether every queued write returned the value it was given.
RECURSIVE ReplaySame(_, _)
ReplaySame(value, queue) ==
  IF queue = <<>> THEN TRUE
  ELSE /\ SetSame(value, Head(queue).path, Head(queue).data)
       /\ ReplaySame(value, Tail(queue))

\* discard without the check of isDestroyed.
discard_unchecked(S, i, silent) == [S EXCEPT !.recs[i].usages = @ - 1]

\* invariant(silent || !this.isDestroyed, ...) throws; a silent discard of
\* a destroyed record returns.
discard(S, i, silent) ==
  IF S.recs[i].isDestroyed
  THEN IF silent THEN S ELSE [S EXCEPT !.obs.threw = TRUE]
  ELSE [S EXCEPT !.recs[i].usages = @ - 1]

\* The chain with a catch handler that also runs after the then handler.
Continue_discardTwice(S, i, w, nonce) ==
  [S EXCEPT !.recs[i].usages = @ - 2,
            !.obs.settled = Append(@, [rec |-> i, kind |-> w.kind, ok |-> FALSE,
                                       released |-> 2, changed |-> FALSE])]

\* The rest of RecordHandler.prototype.get and update once whenReady has
\* resolved: w.kind is "get" or "update", w.updater throws or returns
\* w.updater.value.  An exception in the chain reaches the catch handler;
\* both the then and the catch handler call record.discard().  The entry
\* added to obs.settled tells whether the promise was fulfilled, by how
\* much usages went down and whether data or version changed.
\* got is the program after record.get(path), tried after the then handler,
\* done after record.discard().
Tried(got, i, w, nonce) ==
  IF w.kind = "get" \/ got.obs.threw THEN got
  ELSE IF w.updater.throws THEN [got EXCEPT !.obs.threw = TRUE]
  ELSE RecordSet(got, i, w.path, w.updater.value, nonce)

Settled(S, tried, done, i, w) ==
  [done EXCEPT
     !.obs.threw = S.obs.threw,
     !.obs.settled =
        Append(@, [rec |-> i, kind |-> w.kind,
                   ok |-> ~tried.obs.threw /\ ~done.obs.threw,
                   released |-> S.recs[i].usages - done.recs[i].usages,
                   changed |-> \/ done.recs[i].data # S.recs[i].data
                               \/ done.recs[i].version # S.recs[i].version])]

Released(S, tried, i, w) ==
  Settled(S, tried, discard([tried EXCEPT !.obs.threw = FALSE], i, FALSE), i, w)

Continue(S, i, w, nonce) ==
  Released(S, Tried(RecordGet([S EXCEPT !.obs.threw = FALSE], i, w.path), i, w, nonce),
           i, w)

\* The operations waiting for 'ready', continued in the order of their calls.
RECURSIVE RunWaiting(_, _, _, _)
RunWaiting(S, i, ws, nonce) ==
  IF ws = <<>> THEN S
  ELSE RunWaiting(Continue(S, i, Head(ws), nonce), i, Tail(ws), nonce)

\* this.emit('ready') and what waits for it; S is the program after the
\* follow-up UPDATE, if there is one.
EmitReady(S, i, pendingReady, waiting, nonce) ==
  RunWaiting([S EXCEPT !.obs.resolved = @ + pendingReady,
                       !.obs.events = @ \cup {"ready"},
                       !.recs[i].pendingReady = 0,
                       !.recs[i].waiting = <<>>],
             i, waiting, nonce)

\* The end of _onRead: S is the program after _applyChange.
Ready(S, i, differs, pendingReady, waiting, nonce) ==
  IF S.obs.threw THEN S
  ELSE EmitReady(IF differs THEN _dispatchUpdate(S, i, nonce) ELSE S,
                 i, pendingReady, waiting, nonce)

_onRead(S, i, message, nonce) ==
  LET r == S.recs[i]
      oldValue == message.data
      newValue == IF r.hasPatchQueue THEN ReplayQueue(oldValue, r.patchQueue)
                  ELSE IF Truthy(r.data) THEN r.data ELSE oldValue
      \* newValue !== oldValue
      differs == IF r.hasPatchQueue THEN ~ReplaySame(oldValue, r.patchQueue)
                 ELSE Truthy(r.data)
      \* newValue is this._data itself, or shares no object with it
      marked == MarkAll(newValue, ~r.hasPatchQueue /\ Truthy(r.data))
  IN  IF newValue = Throw THEN [S EXCEPT !.obs.threw = TRUE]
      ELSE Ready(_applyChange(
                       [S EXCEPT !.recs[i].patchQueue = <<>>,
                                 !.recs[i].hasPatchQueue = FALSE,
                                 !.recs[i].isReady = TRUE,
                                 !.recs[i].version = message.version],
                       i, marked),
                 i, differs, r.pendingReady, r.waiting, nonce)

\* _$onMessage that takes every UPDATE for the initial snapshot.
Record_onMessage_alwaysRead(S, i, message, nonce) ==
  IF S.recs[i].isDestroyed THEN [S EXCEPT !.obs.threw = TRUE]
  ELSE IF message.action = "UPDATE" THEN _onRead(S, i, message, nonce)
  ELSE S

\* Record.prototype._$onMessage
Record_onMessage(S, i, message, nonce) ==
  IF S.recs[i].isDestroyed THEN [S EXCEPT !.obs.threw = TRUE]
  ELSE IF message.action = "UPDATE"
  THEN IF ~S.recs[i].isReady THEN _onRead(S, i, message, nonce)
       ELSE _applyUpdate(S, i, message)
  ELSE IF message.action = "SUBSCRIPTION_HAS_PROVIDER"
  THEN [S EXCEPT !.recs[i].hasProvider = message.data.v = 1,
                 !.obs.events = @ \cup {"hasProviderChanged"}]
  ELSE S

(***************************************************************************)
(* Record: subscriptions, whenReady, discard                               *)
(***************************************************************************)
\* subs lists the paths that have a callback, in the order of
\* Object.keys(this._eventEmitter._callbacks).
subscribe(S, i, path, triggerNow) ==
  IF S.recs[i].isDestroyed THEN [S EXCEPT !.obs.threw = TRUE]
  ELSE LET S1 == IF \E n \in 1..Len(S.recs[i].subs) : S.recs[i].subs[n] = path
                 THEN S
                 ELSE [S EXCEPT !.recs[i].subs = Append(@, path)]
       IN  IF triggerNow /\ Truthy(S.recs[i].data)
           THEN IF Get(S.recs[i].data, path) = Throw
                THEN [S1 EXCEPT !.obs.threw = TRUE]
                ELSE [S1 EXCEPT !.obs.fired = @ \cup {<<i, path>>}]
           ELSE S1

unsubscribe(S, i, path) ==
  IF S.recs[i].isDestroyed THEN [S EXCEPT !.obs.threw = TRUE]
  ELSE [S EXCEPT !.recs[i].subs = SelectSeq(@, LAMBDA p : p # path)]

whenReady(S, i) ==
  IF S.recs[i].isDestroyed THEN [S EXCEPT !.obs.threw = TRUE]
  ELSE IF S.recs[i].isReady THEN [S EXCEPT !.obs.resolved = @ + 1]
  ELSE [S EXCEPT !.recs[i].pendingReady = @ + 1]

(***************************************************************************)
(* RecordHandler                                                           *)
(***************************************************************************)
\* getRecord without the lookup in this._recordsMap.
getRecord_alwaysNew(S, recordName) ==
  LET j == Len(S.recs) + 1
      S1 == [send([S EXCEPT !.recs = Append(@, NewRecord(recordName))],
                  ReadFrame(recordName))
               EXCEPT !.map[recordName] = j, !.vec = Append(@, j)]
  IN  [S1 EXCEPT !.recs[j].usages = @ + 1, !.obs.rec = j]

\* map[name] is the instance this._recordsMap holds for name, 0 for none.
getRecord(S, recordName) ==
  LET S1 == IF S.map[recordName] = 0
            THEN LET j == Len(S.recs) + 1
                 IN  [send([S EXCEPT !.recs = Append(@, NewRecord(recordName))],
                           ReadFrame(recordName))
                        EXCEPT !.map[recordName] = j, !.vec = Append(@, j)]
            ELSE S
      record == S1.map[recordName]
  IN  [S1 EXCEPT !.recs[record].usages = @ + 1, !.obs.rec = record]

\* RecordHandler.prototype.get and update: the handle is taken, whenReady()
\* throws on a destroyed record, resolves at once on a ready record (the
\* chain then runs before any other event) and otherwise waits for 'ready'.
\* S is the program after getRecord(recordName), S.obs.rec the record.
OnceReady(S, w, nonce) ==
  IF S.recs[S.obs.rec].isDestroyed THEN [S EXCEPT !.obs.threw = TRUE]
  ELSE IF S.recs[S.obs.rec].isReady THEN Continue(S, S.obs.rec, w, nonce)
  ELSE [S EXCEPT !.recs[S.obs.rec].waiting = Append(@, w)]

WhenReadyThen(S, recordName, w, nonce) ==
  OnceReady(getRecord(S, recordName), w, nonce)

RecordHandler_get(S, recordName, path, nonce) ==
  WhenReadyThen(S, recordName,
                [kind |-> "get", path |-> path,
                 updater |-> [throws |-> FALSE, value |-> U]], nonce)

RecordHandler_update(S, recordName, path, updater, nonce) ==
  WhenReadyThen(S, recordName,
                [kind |-> "update", path |-> path, updater |-> updater], nonce)

\* RecordHandler.prototype.set: record.discard() follows record.set(...) in
\* the same function, so it is not reached when set throws.
\* record.discard() unless record.set(...) threw; S.obs.rec is the record.
DiscardAfterSet(S) ==
  IF S.obs.threw THEN S ELSE discard(S, S.obs.rec, FALSE)

\* S is the program after getRecord(recordName).
SetThenDiscard(S, path, value, nonce) ==
  DiscardAfterSet(RecordSet(S, S.obs.rec, path, value, nonce))

RecordHandler_set(S, recordName, path, value, nonce) ==
  SetThenDiscard(getRecord(S, recordName), path, value, nonce)

\* RecordHandler.prototype.observe, the subscription of an observer: an
\* exception of getRecord or subscribe is caught and passed to the observer,
\* and no teardown function is returned.  observers counts the teardown
\* functions that have not run.
observe_subscribe(S, recordName) ==
  LET S1 == getRecord(S, recordName)
      record == S1.obs.rec
      S2 == subscribe(S1, record, <<>>, TRUE)
  IN  IF S2.obs.threw
      THEN [S2 EXCEPT !.obs.threw = FALSE, !.obs.events = @ \cup {"next(err)"}]
      ELSE [S2 EXCEPT !.recs[record].observers = @ + 1]

\* The teardown function of an observer: record.unsubscribe(onValue), which
\* leaves the callbacks of the other observers, then record.discard().
observe_unsubscribe(S, i) ==
  LET S0 == [S EXCEPT !.recs[i].observers = @ - 1, !.obs.rec = i]
      S1 == IF S0.recs[i].isDestroyed \/ S0.recs[i].observers = 0
            THEN unsubscribe(S0, i, <<>>)
            ELSE S0
  IN  IF S1.obs.threw THEN S1 ELSE discard(S1, i, FALSE)

\* The loop of _prune without the swap of the last record into the freed
\* position.
RECURSIVE PruneLoop_noSwap(_, _, _)
PruneLoop_noSwap(S, i, j) ==
  IF i > j THEN [S EXCEPT !.vec = SubSeq(@, 1, j)]
  ELSE LET r == S.recs[S.vec[i]]
       IN  IF r.usages = 0 /\ r.isReady
           THEN PruneLoop_noSwap(destroy([S EXCEPT !.map[r.name] = 0], S.vec[i]),
                                 i + 1, j - 1)
           ELSE PruneLoop_noSwap(S, i + 1, j)

\* The loop of _prune without the final vec.splice(i).
RECURSIVE PruneLoop_noSplice(_, _, _)
PruneLoop_noSplice(S, i, j) ==
  IF i > j THEN S
  ELSE LET r == S.recs[S.vec[i]]
       IN  IF r.usages = 0 /\ r.isReady
           THEN PruneLoop_noSplice([destroy([S EXCEPT !.map[r.name] = 0], S.vec[i])
                                      EXCEPT !.vec[i] = S.vec[j]],
                                   i, j - 1)
           ELSE PruneLoop_noSplice(S, i + 1, j)

\* The loop of _prune: i and j are the code's i + 1 and j.
RECURSIVE PruneLoop(_, _, _)
PruneLoop(S, i, j) ==
  IF i > j THEN [S EXCEPT !.vec = SubSeq(@, 1, j)]
  ELSE LET r == S.recs[S.vec[i]]
       IN  IF r.usages = 0 /\ r.isReady
           THEN PruneLoop([destroy([S EXCEPT !.map[r.name] = 0], S.vec[i])
                             EXCEPT !.vec[i] = S.vec[j]],
                          i, j - 1)
           ELSE PruneLoop(S, i + 1, j)

\* A run of the pruner that scans nothing.
_prune_idle(S) == S

_prune(S) == PruneLoop(S, 1, Len(S.vec))

_handle(S, message, nonce) ==
  IF message.action = "ERROR" THEN Emit(S, "RECORD_ERROR")
  ELSE IF S.map[message.name] # 0
  THEN Record_onMessage(S, S.map[message.name], message, nonce)
  ELSE S

(***************************************************************************)
(* Connection: the inbound pipeline                                        *)
(***************************************************************************)
\* The client forwards a message of the RECORD topic to the RecordHandler.
Client_onMessage(S, message, nonce) ==
  IF message.topic = "RECORD" THEN _handle(S, message, nonce) ELSE S

_onMessage(S, message) ==
  [S EXCEPT !.conn.messages = Append(@, message),
            !.conn.processIdleCallback = IF @ = "null" THEN "scheduled" ELSE @]

\* The handler a frame of the topic is dispatched to.
HandlerOf(topic) ==
  IF topic = "CONNECTION" THEN "_handleConnectionResponse"
  ELSE IF topic = "AUTH" THEN "_handleAuthResponse"
  ELSE "_$onMessage"

\* One turn of the loop of _processMessages for the next frame of the
\* buffer; the deadline may end the slice after any frame.
\* conn.messages holds the frames from this._messagesIndex on;
\* conn.messagesIndex is "over" when this._messagesIndex > 1024 and "within"
\* otherwise.  With the index over 1024, splice(this._messagesIndex) removes
\* the frames from the index on, those not yet processed, the index becomes
\* 0, the frame read there is the null a processed frame was replaced by
\* and message.length throws.
\* An exception of a handler leaves the loop with the callback handle set.
LeaveLoop(S) ==
  IF S.obs.threw THEN [S EXCEPT !.conn.processIdleCallback = "dead"] ELSE S

\* The frame message parsed and dispatched by its topic.
Dispatch(S, message, nonce) ==
  LeaveLoop(IF message.topic = "CONNECTION" THEN _handleConnectionResponse(S, message)
            ELSE IF message.topic = "AUTH" THEN _handleAuthResponse(S, message)
            ELSE Client_onMessage(S, message, nonce))

ProcessOne(S, nonce) ==
  IF S.conn.messagesIndex = "over"
  THEN [S EXCEPT !.conn.messages = <<>>, !.conn.messagesIndex = "within",
                 !.conn.processIdleCallback = "dead", !.obs.threw = TRUE]
  ELSE Dispatch([S EXCEPT !.conn.messages = Tail(@), !.obs.msg = Head(S.conn.messages),
                          !.obs.handler = HandlerOf(Head(S.conn.messages).topic)],
                Head(S.conn.messages), nonce)

\* The loop reaches the end of the buffer with time remaining:
\* this._messages.length is not 0 once a payload was received, the frame
\* read is undefined and message.length throws; the callback handle stays
\* set and no later payload schedules a new slice.
ProcessPastEnd(S) ==
  [S EXCEPT !.conn.processIdleCallback = "dead", !.conn.messagesIndex = "within",
            !.obs.threw = TRUE]

(***************************************************************************)
(* Inputs                                                                  *)
(***************************************************************************)
\* Pending whenReady promises per record.
MaxPending == 1

\* Entries of a record's patch queue.
MaxPatch == 2

Paths == {<<"a">>, <<"a", "b">>}

SetValues == {Prim(1), Prim(2)}

Snapshots == {EMPTY, Obj(<<"a">>, <<Prim(1)>>)}

ControlFrames ==
  {CtlFrame("CONNECTION", a, "") : a \in {"ACK", "CHALLENGE", "REJECTION", "PING", "PONG"}}
    \cup {CtlFrame("CONNECTION", "REDIRECT", "redirect"),
          CtlFrame("CONNECTION", "ERROR", "CONNECTION_AUTHENTICATION_TIMEOUT"),
          CtlFrame("AUTH", "ACK", ""),
          CtlFrame("AUTH", "ERROR", "TOO_MANY_AUTH_ATTEMPTS"),
          CtlFrame("AUTH", "ERROR", "INVALID_AUTH_DATA")}

UpdateFrames(names, datas) ==
  {UpdateFrame(name, Version(c, n), d, NullVersion) :
     name \in names, c \in 1..MaxCounter, n \in Nonces, d \in datas}

RecordFrames ==
  UpdateFrames(Names, Snapshots)
    \cup {Frame("RECORD", "SUBSCRIPTION_HAS_PROVIDER", name, NullVersion, Prim(1), NullVersion) :
            name \in Names}
    \cup {CtlFrame("RECORD", "ERROR", "RECORD_NOT_FOUND")}

(***************************************************************************)
(* Initial state: new Connection(...) has created its first endpoint, the  *)
(* RecordHandler is empty.                                                 *)
(***************************************************************************)
Init ==
  /\ conn = [state |-> "CLOSED", endpoint |-> "CONNECTING", url |-> "original",
             endpointUrl |-> "original", old |-> <<>>, orphanIntervals |-> 0,
             messages |-> <<>>, messagesIndex |-> "within",
             processIdleCallback |-> "null",
             authParams |-> FALSE, authCallback |-> FALSE,
             deliberateClose |-> FALSE, redirecting |-> FALSE,
             tooManyAuthAttempts |-> FALSE,
             connectionAuthenticationTimeout |-> FALSE,
             challengeDenied |-> FALSE, messageSender |-> "null",
             heartbeatInterval |-> "null", reconnectTimeout |-> FALSE,
             reconnectionAttempt |-> 0, lastHeartBeat |-> FALSE,
             queuedMessages |-> <<>>]
  /\ recs = <<>>
  /\ recordsMap = [name \in Names |-> 0]
  /\ recordsVec = <<>>
  /\ obs = NoObs("new")
  /\ hist = [readOnWire |-> {}, closed |-> FALSE, terminal |-> FALSE,
             script |-> 0, emitted |-> <<>>, written |-> <<>>, called |-> <<>>,
             gaveUp |-> FALSE, redirectTo |-> "",
             held |-> [i \in 1..MaxInst |-> 0]]

\* The handles of record i the application took (1) or gave back (-1) in
\* the step to S: getRecord returns a handle, a discard that decrements
\* usages gives one back.
HandleTaken(S, i) ==
  IF S.obs.rec # i THEN 0
  ELSE IF S.obs.op = "getRecord" THEN 1
  ELSE IF S.obs.op = "discard" /\ ~S.obs.threw /\ ~S.recs[i].isDestroyed THEN -1
  ELSE 0

Bounded(S) ==
  /\ Len(S.conn.queuedMessages) <= MaxQueue
  /\ Len(S.conn.old) <= MaxOld
  /\ S.conn.orphanIntervals <= MaxOld
  /\ \A i \in 1..Len(S.recs) :
        /\ S.recs[i].usages \in -1..MaxUsages
        /\ S.recs[i].pendingReady + S.recs[i].orphanedReady <= MaxPending
        /\ Len(S.recs[i].waiting) <= MaxPending
        /\ S.recs[i].observers <= MaxPending
        /\ S.hist.held[i] + HandleTaken(S, i) \in -1..MaxUsages
        /\ Len(S.recs[i].patchQueue) <= MaxPatch
        /\ S.recs[i].version.c <= MaxCounter + 1

TerminalFrames ==
  {CtlFrame("AUTH", "ERROR", "TOO_MANY_AUTH_ATTEMPTS"),
   CtlFrame("CONNECTION", "ERROR", "CONNECTION_AUTHENTICATION_TIMEOUT"),
   CtlFrame("CONNECTION", "REJECTION", "")}

\* Whether the step to S met a terminal condition.
Terminal(S) ==
  \/ S.obs.msg \in TerminalFrames
  \/ "MAX_RECONNECTION_ATTEMPTS_REACHED" \in S.obs.events

\* The events of the handshake with a challenge, in order: the endpoint
\* opens, the server sends CONNECTION CHALLENGE and CONNECTION ACK, the
\* application calls authenticate, the server sends AUTH ACK without data.
HandshakeScript ==
  <<[op |-> "onopen", msg |-> U],
    [op |-> "onmessage", msg |-> CtlFrame("CONNECTION", "CHALLENGE", "")],
    [op |-> "onmessage", msg |-> CtlFrame("CONNECTION", "ACK", "")],
    [op |-> "authenticate", msg |-> U],
    [op |-> "onmessage", msg |-> CtlFrame("AUTH", "ACK", "")]>>

\* The event of the step to S: a call or a transport event, with the frame
\* an onmessage delivered.
Event(S) ==
  [op |-> S.obs.op,
   msg |-> IF S.obs.op = "onmessage"
           THEN S.conn.messages[Len(S.conn.messages)] ELSE U]

\* How many events of HandshakeScript have happened, when the events since
\* the construction are a prefix of it; else -1.  The runs of the idle
\* callback are no events.
NextScript(S) ==
  LET k == S.hist.script
  IN  IF k < 0 THEN -1
      ELSE IF S.obs.op \in {"process", "processEnd"} THEN k
      ELSE IF k < Len(HandshakeScript) /\ Event(S) = HandshakeScript[k + 1] THEN k + 1
      ELSE -1

\* The step to S processed a CONNECTION/REDIRECT.
Redirected(S) ==
  /\ S.obs.op = "process"
  /\ S.obs.msg # U
  /\ S.obs.msg.topic = "CONNECTION"
  /\ S.obs.msg.action = "REDIRECT"

\* The history of the step to S: whether a terminal condition was met,
\* along HandshakeScript the states emitted, the frames written and the
\* calls of the auth callback, whether the connection gave up
\* reconnecting and the application has not called authenticate since, the
\* URL of a redirect since which no endpoint has been created, and for each
\* record the handles the application took with getRecord less those it
\* gave back with discard.
History(S) ==
  LET k == NextScript(S)
  IN  [S.hist EXCEPT
         !.terminal = @ \/ Terminal(S),
         !.script = k,
         !.emitted = IF k < 0 THEN <<>> ELSE @ \o S.obs.states,
         !.written = IF k < 0 THEN <<>> ELSE @ \o Flatten(S.obs.wrote),
         !.called = IF k < 0 THEN <<>> ELSE @ \o S.obs.authCallbacks,
         !.gaveUp = IF "MAX_RECONNECTION_ATTEMPTS_REACHED" \in S.obs.events THEN TRUE
                    ELSE IF S.obs.op = "authenticate" THEN FALSE
                    ELSE @,
         !.redirectTo = IF Redirected(S) THEN S.obs.msg.name
                        ELSE IF S.obs.created > 0 THEN ""
                        ELSE @,
         !.held = [i \in 1..MaxInst |-> @[i] + HandleTaken(S, i)]]

\* The step that takes the program to S.
Apply(S) ==
  /\ Bounded(S)
  /\ conn' = S.conn
  /\ recs' = S.recs
  /\ recordsMap' = S.map
  /\ recordsVec' = S.vec
  /\ obs' = S.obs
  /\ hist' = History(S)

(***************************************************************************)
(* Steps: calls of the application                                         *)
(***************************************************************************)
Authenticate ==
  /\ Apply([authenticate(Now("authenticate")) EXCEPT !.hist.closed = FALSE])

Close ==
  /\ Apply([close(Now("close")) EXCEPT !.hist.closed = TRUE])

Flush ==
  /\ Apply(_sendQueuedMessages(Now("flush")))

GetRecord(names) ==
  \E name \in names :
     /\ recordsMap[name] # 0 \/ Len(recs) < MaxInst
     /\ Apply(getRecord(Now("getRecord"), name))

Discard ==
  \E i \in 1..Len(recs), silent \in BOOLEAN :
     Apply(discard([Now("discard") EXCEPT !.obs.rec = i, !.obs.silent = silent],
                   i, silent))

SetPath(paths, values) ==
  \E i \in 1..Len(recs), path \in paths, value \in values, nonce \in Nonces :
     Apply(RecordSet([Now("set") EXCEPT !.obs.rec = i, !.obs.path = path,
                                        !.obs.value = value],
                     i, path, value, nonce))

SetRoot(values) ==
  \E i \in 1..Len(recs), value \in values, nonce \in Nonces :
     Apply(RecordSet([Now("set") EXCEPT !.obs.rec = i, !.obs.value = value],
                     i, <<>>, value, nonce))

GetPath(paths) ==
  \E i \in 1..Len(recs), path \in paths :
     Apply(RecordGet([Now("get") EXCEPT !.obs.rec = i, !.obs.path = path], i, path))

Subscribe(paths) ==
  \E i \in 1..Len(recs), path \in paths, triggerNow \in BOOLEAN :
     Apply(subscribe([Now("subscribe") EXCEPT !.obs.rec = i], i, path, triggerNow))

Unsubscribe(paths) ==
  \E i \in 1..Len(recs), path \in paths :
     /\ recs[i].isDestroyed \/ \E n \in 1..Len(recs[i].subs) : recs[i].subs[n] = path
     /\ Apply(unsubscribe([Now("unsubscribe") EXCEPT !.obs.rec = i], i, path))

WhenReady ==
  \E i \in 1..Len(recs) : Apply(whenReady([Now("whenReady") EXCEPT !.obs.rec = i], i))

\* The handler operations draw one version suffix for the UPDATEs they
\* dispatch.
HandlerGet(names, paths) ==
  \E name \in names, path \in paths, nonce \in {1} :
     /\ recordsMap[name] # 0 \/ Len(recs) < MaxInst
     /\ Apply(RecordHandler_get([Now("handler.get") EXCEPT !.obs.path = path],
                                name, path, nonce))

HandlerSet(names, paths, values) ==
  \E name \in names, path \in paths, value \in values, nonce \in {1} :
     /\ recordsMap[name] # 0 \/ Len(recs) < MaxInst
     /\ Apply(RecordHandler_set([Now("handler.set") EXCEPT !.obs.path = path,
                                                           !.obs.value = value],
                                name, path, value, nonce))

HandlerUpdate(names, paths, updaters) ==
  \E name \in names, path \in paths, updater \in updaters, nonce \in {1} :
     /\ recordsMap[name] # 0 \/ Len(recs) < MaxInst
     /\ Apply(RecordHandler_update([Now("handler.update") EXCEPT !.obs.path = path],
                                   name, path, updater, nonce))

ObserveSubscribe(names) ==
  \E name \in names :
     /\ recordsMap[name] # 0 \/ Len(recs) < MaxInst
     /\ Apply(observe_subscribe(Now("observe.subscribe"), name))

ObserveUnsubscribe ==
  \E i \in 1..Len(recs) :
     /\ recs[i].observers > 0
     /\ Apply(observe_unsubscribe(Now("observe.unsubscribe"), i))

Prune ==
  /\ Apply(_prune(Now("prune")))

(***************************************************************************)
(* Steps: events of the transport                                          *)
(***************************************************************************)
EndpointOpen ==
  /\ conn.endpoint = "CONNECTING"
  /\ Apply(_onOpen([Now("onopen") EXCEPT !.conn.endpoint = "OPEN"]))

\* A failing socket reports the error first and its close afterwards.
EndpointError ==
  /\ conn.endpoint \in {"CONNECTING", "OPEN"}
  /\ Apply(_onError([Now("onerror") EXCEPT !.conn.endpoint = "CLOSING"]))

EndpointClosed ==
  /\ conn.endpoint # "CLOSED"
  /\ Apply(_onClose([Now("onclose") EXCEPT !.conn.endpoint = "CLOSED"]))

\* The handlers of a former endpoint stay bound to the Connection.
OldEndpointOpen ==
  \E k \in 1..Len(conn.old) :
     /\ conn.old[k] = "CONNECTING"
     /\ Apply(_onOpen([Now("old.onopen") EXCEPT !.conn.old[k] = "OPEN"]))

OldEndpointClosed ==
  \E k \in 1..Len(conn.old) :
     Apply(_onClose([Now("old.onclose") EXCEPT
                       !.conn.old = SubSeq(@, 1, k - 1) \o SubSeq(@, k + 1, Len(@))]))

Receive(frames) ==
  \E message \in frames :
     /\ conn.endpoint = "OPEN"
     /\ Len(conn.messages) < MaxInbound
     /\ Apply(_onMessage(Now("onmessage"), message))

\* Receive with n frames received and not yet processed.
ReceiveUpTo(frames, n) ==
  \E message \in frames :
     /\ conn.endpoint = "OPEN"
     /\ Len(conn.messages) < n
     /\ Apply(_onMessage(Now("onmessage"), message))

(***************************************************************************)
(* Steps: timers and idle callbacks                                        *)
(***************************************************************************)
\* A payload of empty frames (message.length <= 2, which the loop skips),
\* as many as take this._messagesIndex over 1024, is received while no frame
\* waits, and the idle callback skips them all in slices that the deadline
\* ends.
ReceiveEmptyFrames ==
  /\ conn.endpoint = "OPEN"
  /\ conn.messages = <<>>
  /\ conn.messagesIndex = "within"
  /\ conn.processIdleCallback # "dead"
  /\ Apply([Now("onmessage.empty") EXCEPT !.conn.processIdleCallback = "scheduled",
                                         !.conn.messagesIndex = "over"])

ProcessMessage ==
  \E nonce \in Nonces :
     /\ conn.processIdleCallback = "scheduled"
     /\ conn.messages # <<>>
     /\ Apply(ProcessOne(Now("process"), nonce))

ProcessEnd ==
  /\ conn.processIdleCallback = "scheduled"
  /\ conn.messages = <<>>
  /\ Apply(ProcessPastEnd(Now("processEnd")))

SendTimer ==
  /\ conn.messageSender = "armed"
  /\ Apply(_sendQueuedMessages([Now("sendTimer") EXCEPT !.conn.messageSender = "stale"]))

ReconnectTimer ==
  /\ conn.reconnectTimeout
  /\ Apply(_tryOpen(Now("reconnectTimer")))

\* Without a last heartbeat the interval counts from the epoch.
HeartbeatTimer ==
  \E expired \in IF conn.lastHeartBeat THEN BOOLEAN ELSE {TRUE} :
     /\ conn.heartbeatInterval = "armed" \/ conn.orphanIntervals > 0
     /\ Apply(_checkHeartBeat([Now("heartbeat") EXCEPT !.obs.expired = expired],
                               expired))

(***************************************************************************)
(* Specifications                                                          *)
(***************************************************************************)
Next ==
  \/ Authenticate
  \/ Close
  \/ Flush
  \/ GetRecord(Names)
  \/ Discard
  \/ SetPath(Paths, SetValues)
  \/ SetRoot(Snapshots)
  \/ GetPath(Paths \cup {<<>>})
  \/ Subscribe(Paths \cup {<<>>})
  \/ Unsubscribe(Paths \cup {<<>>})
  \/ WhenReady
  \/ Prune
  \/ EndpointOpen
  \/ EndpointError
  \/ EndpointClosed
  \/ OldEndpointOpen
  \/ OldEndpointClosed
  \/ Receive(ControlFrames \cup RecordFrames)
  \/ ProcessMessage
  \/ ProcessEnd
  \/ SendTimer
  \/ ReconnectTimer
  \/ HeartbeatTimer

Spec == Init /\ [][Next]_vars

\* The state of an authenticated client: authenticate, the endpoint's open,
\* the CONNECTION ACK and the AUTH ACK have been processed.
InitOpen ==
  /\ conn = [state |-> "OPEN", endpoint |-> "OPEN", url |-> "original",
             endpointUrl |-> "original", old |-> <<>>, orphanIntervals |-> 0,
             messages |-> <<>>, messagesIndex |-> "within",
             processIdleCallback |-> "scheduled",
             authParams |-> TRUE, authCallback |-> TRUE,
             deliberateClose |-> FALSE, redirecting |-> FALSE,
             tooManyAuthAttempts |-> FALSE,
             connectionAuthenticationTimeout |-> FALSE,
             challengeDenied |-> FALSE, messageSender |-> "null",
             heartbeatInterval |-> "armed", reconnectTimeout |-> FALSE,
             reconnectionAttempt |-> 0, lastHeartBeat |-> TRUE,
             queuedMessages |-> <<>>]
  /\ recs = <<>>
  /\ recordsMap = [name \in Names |-> 0]
  /\ recordsVec = <<>>
  /\ obs = NoObs("new")
  /\ hist = [readOnWire |-> {}, closed |-> FALSE, terminal |-> FALSE,
             script |-> -1, emitted |-> <<>>, written |-> <<>>, called |-> <<>>,
             gaveUp |-> FALSE, redirectTo |-> "",
             held |-> [i \in 1..MaxInst |-> 0]]

(***************************************************************************)
(* One record of an authenticated client: local writes at one path, the    *)
(* server's UPDATEs in every version, a subscriber, the loss of the        *)
(* endpoint and close().                                                   *)
(***************************************************************************)
NextRecord ==
  \/ GetRecord({"r1"})
  \/ SetPath({<<"a">>}, SetValues)
  \/ Subscribe({<<"a">>})
  \/ Close
  \/ EndpointClosed
  \/ Receive(UpdateFrames({"r1"}, Snapshots))
  \/ ProcessMessage
  \/ SendTimer

SpecRecord == InitOpen /\ [][NextRecord]_vars

\* The record an inbound message of the RECORD topic is routed to, 0 for none.
Target(message) ==
  IF message.topic = "RECORD" /\ message.action # "ERROR"
  THEN recordsMap[message.name] ELSE 0

\* The last step processed an UPDATE routed to a ready record.
UpdateOnReady ==
  /\ obs'.op = "process"
  /\ obs'.msg.action = "UPDATE"
  /\ Target(obs'.msg) # 0
  /\ recs[Target(obs'.msg)].isReady
  /\ ~recs[Target(obs'.msg)].isDestroyed

\* Version v is strictly greater than w: higher counter, or equal counter
\* and greater nonce.
Greater(v, w) == v.c > w.c \/ (v.c = w.c /\ v.n > w.n)

UpdatesIn(frames) == SelectSeq(frames, LAMBDA f : f.action = "UPDATE")

\* C1: every UPDATE a record enqueues carries a version counter strictly
\* greater than that of the UPDATE it enqueued before, whatever local sets,
\* inbound UPDATEs and connection state changes come in between.
C1_OutboundCountersIncrease ==
  [][\A i \in 1..Len(recs) : \A n \in 1..Len(obs'.sent) :
        (/\ ~recs[i].isDestroyed
         /\ obs'.sent[n].action = "UPDATE"
         /\ obs'.sent[n].name = recs[i].name)
        => /\ obs'.sent[n].version.c > recs[i].lastSent
           /\ Len(UpdatesIn(obs'.sent)) = 1
           /\ recs'[i].lastSent = obs'.sent[n].version.c]_vars

\* A set enqueues an UPDATE behind an earlier UPDATE of the same record that
\* is still in the send queue.
C1_Witness ==
  /\ obs.op = "set"
  /\ UpdatesIn(obs.sent) # <<>>
  /\ \E m, n \in 1..Len(conn.queuedMessages) :
        /\ m < n
        /\ conn.queuedMessages[m].action = "UPDATE"
        /\ conn.queuedMessages[n] = obs.sent[1]
        /\ conn.queuedMessages[m].name = conn.queuedMessages[n].name
        /\ conn.queuedMessages[m].version.c < conn.queuedMessages[n].version.c

\* C2: on a ready record an inbound UPDATE whose version is not strictly
\* greater than the local version is dropped: the record is unchanged, no
\* subscriber callback runs and no message is enqueued.
C2_StaleUpdateDropped ==
  [][(UpdateOnReady /\ ~Greater(obs'.msg.version, recs[Target(obs'.msg)].version))
       => /\ recs' = recs
          /\ obs'.fired = {}
          /\ obs'.sent = <<>>
          /\ conn'.queuedMessages = conn.queuedMessages]_vars

\* An UPDATE with the local counter and a lower nonce, carrying other data,
\* reached a ready record that has a subscriber.
C2_Witness ==
  /\ obs.op = "process"
  /\ obs.msg.action = "UPDATE"
  /\ Target(obs.msg) # 0
  /\ LET r == recs[Target(obs.msg)]
     IN  /\ r.isReady
         /\ r.subs # <<>>
         /\ obs.msg.version.c = r.version.c
         /\ obs.msg.version.n < r.version.n
         /\ obs.msg.data # r.data

\* C3: on a ready record an inbound UPDATE whose version is strictly greater
\* than the local one is adopted: the version becomes the incoming version,
\* the data the incoming JSON merged into the old data by the path utility,
\* and no UPDATE is enqueued.
C3_NewerUpdateAdopted ==
  [][(UpdateOnReady /\ Greater(obs'.msg.version, recs[Target(obs'.msg)].version))
       => /\ recs'[Target(obs'.msg)].version = obs'.msg.version
          /\ recs'[Target(obs'.msg)].data = obs'.msg.data
          /\ recs'[Target(obs'.msg)].data =
               Patch(recs[Target(obs'.msg)].data, obs'.msg.data)
          /\ UpdatesIn(obs'.sent) = <<>>]_vars

\* An UPDATE on a record that was ready already changed what a subscriber
\* sees.
C3_Witness ==
  /\ obs.op = "process"
  /\ obs.msg.action = "UPDATE"
  /\ "ready" \notin obs.events
  /\ obs.fired # {}
  /\ Target(obs.msg) # 0
  /\ recs[Target(obs.msg)].version = obs.msg.version
  /\ recs[Target(obs.msg)].data = obs.msg.data

(***************************************************************************)
(* One record of an authenticated client before its first UPDATE: path     *)
(* writes, then the snapshot.                                              *)
(***************************************************************************)
SnapshotFrames ==
  {UpdateFrame("r1", Version(1, 1), d, NullVersion) : d \in Snapshots}

NextReplay ==
  \/ GetRecord({"r1"})
  \/ SetPath(Paths, SetValues)
  \/ Receive(SnapshotFrames)
  \/ ProcessMessage
  \/ SendTimer

SpecReplay == InitOpen /\ [][NextReplay]_vars

\* C4: when only path writes were made on a record before its first UPDATE,
\* that UPDATE leaves the record ready with the snapshot and the writes
\* applied to it in call order as its data and with an empty patch queue,
\* and one UPDATE with the snapshot's counter plus one is dispatched if the
\* result differs from the snapshot, none if it does not.
C4_QueuedWritesReplayed ==
  [][(/\ obs'.op = "process"
      /\ obs'.msg.action = "UPDATE"
      /\ Target(obs'.msg) # 0
      /\ ~recs[Target(obs'.msg)].isReady
      /\ ~recs[Target(obs'.msg)].isDestroyed
      /\ recs[Target(obs'.msg)].hasPatchQueue)
       => LET i == Target(obs'.msg)
              result == ReplayQueue(obs'.msg.data, recs[i].patchQueue)
          IN  /\ recs'[i].isReady
              /\ recs'[i].data = result
              /\ recs'[i].patchQueue = <<>>
              /\ IF result # obs'.msg.data
                 THEN /\ Len(UpdatesIn(obs'.sent)) = 1
                      /\ UpdatesIn(obs'.sent)[1].version.c = obs'.msg.version.c + 1
                 ELSE UpdatesIn(obs'.sent) = <<>>]_vars

(***************************************************************************)
(* The Connection alone: the application's authenticate and close, the     *)
(* transport's events, the server's handshake, redirect and terminal       *)
(* frames, the reconnect and heartbeat timers.                             *)
(***************************************************************************)
ConnectionFrames ==
  {CtlFrame("CONNECTION", "ACK", ""), CtlFrame("AUTH", "ACK", ""),
   CtlFrame("CONNECTION", "REDIRECT", "redirect")} \cup TerminalFrames

NextConnection ==
  \/ Authenticate
  \/ Close
  \/ EndpointOpen
  \/ EndpointError
  \/ EndpointClosed
  \/ OldEndpointOpen
  \/ OldEndpointClosed
  \/ Receive(ConnectionFrames)
  \/ ProcessMessage
  \/ ProcessEnd
  \/ ReconnectTimer
  \/ HeartbeatTimer

SpecConnection == Init /\ [][NextConnection]_vars

Range(seq) == {seq[n] : n \in 1..Len(seq)}

\* Every socket the Connection created has closed.
EndpointsClosed == conn.endpoint = "CLOSED" /\ conn.old = <<>>

\* C5: after close() and until the next authenticate(), no endpoint is
\* created and the state does not become RECONNECTING, and the state is
\* CLOSED once the endpoints have closed and no timer is left to run; in
\* whatever state close() was called.
C5_CloseStaysClosed ==
  [][/\ (hist.closed /\ hist'.closed)
          => /\ obs'.created = 0
             /\ "RECONNECTING" \notin Range(obs'.states)
     /\ (hist'.closed /\ EndpointsClosed' /\ ~conn'.reconnectTimeout)
          => conn'.state = "CLOSED"]_vars

\* C6: after a terminal condition no reconnect attempt is scheduled, and
\* once the endpoints have closed and no timer is left to run the state is
\* CLOSED.
C6_TerminalClosed ==
  [][hist'.terminal
       => /\ hist.terminal => obs'.scheduled = <<>>
          /\ (EndpointsClosed' /\ ~conn'.reconnectTimeout) => conn'.state = "CLOSED"]_vars

(***************************************************************************)
(* The send queue: records are created at any time (each sends its READ),  *)
(* the connection is opened, redirected, lost and reopened.                *)
(***************************************************************************)
QueueFrames ==
  {CtlFrame("CONNECTION", "ACK", ""), CtlFrame("AUTH", "ACK", ""),
   CtlFrame("CONNECTION", "REDIRECT", "redirect")}

NextQueue ==
  \/ Authenticate
  \/ Flush
  \/ GetRecord(Names)
  \/ EndpointOpen
  \/ EndpointError
  \/ EndpointClosed
  \/ Receive(QueueFrames)
  \/ ProcessMessage
  \/ SendTimer
  \/ ReconnectTimer

SpecQueue == Init /\ [][NextQueue]_vars

\* The frames of the send queue among those written to the transport
\* (handshake, authentication and heartbeat frames are written directly).
Written(packets) == SelectSeq(Flatten(packets), LAMBDA f : f.topic = "RECORD")

\* C7: a frame passed to send stays in the queue, in send order, until it
\* is written to the transport, once, with the connection OPEN: no step
\* takes a frame from the queue without writing it, and the queue is empty
\* when OPEN has been reached on an open endpoint.
C7_QueuedFramesWritten ==
  [][/\ obs'.flushed \o conn'.queuedMessages = conn.queuedMessages \o obs'.sent
     /\ Written(obs'.wrote) = obs'.flushed
     /\ ("OPEN" \in Range(obs'.states) /\ conn'.endpoint = "OPEN")
          => conn'.queuedMessages = <<>>]_vars

\* C8: when OPEN is reached on an open endpoint, a READ of every record
\* that is live in the registry has been written to that endpoint.
C8_ReadOnOpen ==
  ("OPEN" \in Range(obs.states) /\ conn.endpoint = "OPEN")
    => \A name \in Names :
          (recordsMap[name] # 0 /\ ~recs[recordsMap[name]].isDestroyed)
            => name \in hist.readOnWire

(***************************************************************************)
(* The registry of an authenticated client: handles are taken and          *)
(* released, whenReady is called, the server's first UPDATE makes a record *)
(* ready, the pruner runs, and close() takes the connection to CLOSED.     *)
(***************************************************************************)
ReadyFrames ==
  {UpdateFrame(name, Version(1, 1), EMPTY, NullVersion) : name \in Names}

NextRegistry ==
  \/ GetRecord(Names)
  \/ Discard
  \/ WhenReady
  \/ Prune
  \/ Close
  \/ EndpointClosed
  \/ Receive(ReadyFrames)
  \/ ProcessMessage
  \/ SendTimer

SpecRegistry == InitOpen /\ [][NextRegistry]_vars

\* The whenReady promises that are pending on the records of set ids.
RECURSIVE PendingOn(_)
PendingOn(ids) ==
  IF ids = {} THEN 0
  ELSE LET i == CHOOSE i \in ids : TRUE
       IN  recs[i].pendingReady + PendingOn(ids \ {i})

\* C9: the whenReady promises pending on a record are rejected by the step
\* that destroys it and resolved by the step that makes it ready, whenReady
\* on a ready record resolves at once, and a record that is ready or
\* destroyed has no promise left pending.
C9_WhenReadySettles ==
  [][/\ obs'.rejected =
          PendingOn({i \in 1..Len(recs) : recs'[i].isDestroyed /\ ~recs[i].isDestroyed})
     /\ obs'.resolved =
          IF obs'.op = "whenReady" /\ recs[obs'.rec].isReady /\ ~recs[obs'.rec].isDestroyed
          THEN 1
          ELSE PendingOn({i \in 1..Len(recs) : recs'[i].isReady /\ ~recs[i].isReady})
     /\ \A i \in 1..Len(recs') :
           (recs'[i].isReady \/ recs'[i].isDestroyed)
             => recs'[i].pendingReady + recs'[i].orphanedReady = 0]_vars

\* No two instances the registry holds, and no two instances that are not
\* destroyed, have the same name, and the map holds each name's instance.
OneInstancePerName ==
  /\ \A m, n \in 1..Len(recordsVec) :
        m # n => recs[recordsVec[m]].name # recs[recordsVec[n]].name
  /\ \A i, j \in 1..Len(recs) :
        (i # j /\ ~recs[i].isDestroyed /\ ~recs[j].isDestroyed)
          => recs[i].name # recs[j].name
  /\ \A name \in Names :
        recordsMap[name] # 0
          => /\ recs[recordsMap[name]].name = name
             /\ recordsMap[name] \in Range(recordsVec)

\* C10: the registry holds at most one instance per name, the instance of
\* a name changes only when the pruner removes it, and getRecord of a name
\* that has an instance returns that instance.
C10_SameInstanceUntilPruned ==
  [][/\ OneInstancePerName'
     /\ \A name \in Names :
           recordsMap[name] # 0
             => /\ \/ recordsMap'[name] = recordsMap[name]
                   \/ obs'.op = "prune" /\ recordsMap'[name] = 0
                /\ (obs'.op = "getRecord" /\ recs'[obs'.rec].name = name)
                     => obs'.rec = recordsMap[name]]_vars

\* getRecord returns, for the second time, the instance created after the
\* pruner removed the first instance of the name.
C10_Witness ==
  /\ obs.op = "getRecord"
  /\ Len(recs) = 2
  /\ recs[1].name = recs[2].name
  /\ recs[1].isDestroyed
  /\ obs.rec = 2
  /\ recs[2].usages = 2

\* The record the pruner scans is eligible for destruction.
Eligible(r) == r.usages = 0 /\ r.isReady

\* C11: a pruner run destroys or removes only records that have no usages
\* and are ready; every other record of the sequence stays in the sequence
\* and in the map and is left as it was, wherever it stands in the sequence.
C11_PrunerPreservesOthers ==
  [][obs'.op = "prune"
       => \A k \in 1..Len(recs) :
             /\ (\/ k \in obs'.destroyed
                 \/ recs'[k] # recs[k]
                 \/ k \in Range(recordsVec) /\ k \notin Range(recordsVec')
                 \/ recordsMap[recs[k].name] = k /\ recordsMap'[recs[k].name] # k)
                  => Eligible(recs[k])
             /\ (k \in Range(recordsVec) /\ ~Eligible(recs[k]))
                  => /\ k \in Range(recordsVec')
                     /\ recordsMap'[recs[k].name] = recordsMap[recs[k].name]
                     /\ recs'[k].isDestroyed = recs[k].isDestroyed]_vars

\* The pruner destroyed the first record of the sequence and kept the
\* second, which it moved into the freed position.
C11_Witness ==
  /\ obs.op = "prune"
  /\ obs.destroyed = {1}
  /\ recordsVec = <<2>>
  /\ ~recs[2].isDestroyed
  /\ recordsMap[recs[2].name] = 2
  /\ recordsMap[recs[1].name] = 0

(***************************************************************************)
(* Local writes and reads of one record of an authenticated client, before *)
(* and after the server's first UPDATE.                                    *)
(***************************************************************************)
PathValues == {Prim(1), Obj(<<"b">>, <<Prim(1)>>)}

RootValues == {Null, Obj(<<"a">>, <<Prim(1)>>)}

NextSet ==
  \/ GetRecord({"r1"})
  \/ SetPath(Paths, PathValues)
  \/ SetRoot(RootValues)
  \/ GetPath({<<>>} \cup Paths)
  \/ Subscribe({<<"a">>})
  \/ Receive(SnapshotFrames)
  \/ ProcessMessage
  \/ SendTimer

SpecSet == InitOpen /\ [][NextSet]_vars

\* C12: a set whose result is the record's data itself sends nothing,
\* leaves data and version as they were and invokes no subscriber callback;
\* and the repetition of the set of the step before on a ready record sends
\* no UPDATE.
C12_NoChangeNoUpdate ==
  [][(obs'.op = "set" /\ ~obs'.threw)
       => LET i == obs'.rec
          IN  /\ SetSame(recs[i].data, obs'.path, obs'.value)
                   => /\ obs'.sent = <<>>
                      /\ obs'.fired = {}
                      /\ recs'[i].version = recs[i].version
                      /\ recs'[i].data = recs[i].data
              /\ (/\ obs.op = "set" /\ ~obs.threw /\ obs.rec = i
                  /\ obs.path = obs'.path /\ obs.value = obs'.value
                  /\ recs[i].isReady)
                   => /\ UpdatesIn(obs'.sent) = <<>>
                      /\ recs'[i].version = recs[i].version]_vars

\* A set on a ready record with a subscriber wrote the value that was
\* already at the path.
C12_Witness ==
  /\ obs.op = "set"
  /\ ~obs.threw
  /\ obs.path = <<"a">>
  /\ obs.value = Obj(<<"b">>, <<Prim(1)>>)
  /\ recs[obs.rec].isReady
  /\ recs[obs.rec].subs # <<>>
  /\ recs[obs.rec].version.c = 2
  /\ obs.sent = <<>>

\* C13: a get that immediately follows a successful set on the same record
\* with the same path (the root for the one-argument form) returns the
\* value just written.
C13_GetAfterSet ==
  [][(/\ obs.op = "set" /\ ~obs.threw
      /\ obs'.op = "get" /\ obs'.rec = obs.rec /\ obs'.path = obs.path)
       => /\ ~obs'.threw
          /\ obs'.got = obs.value]_vars

(***************************************************************************)
(* The public operations of one record of an authenticated client, before  *)
(* and after the pruner destroyed it.                                      *)
(***************************************************************************)
NextDestroyed ==
  \/ GetRecord({"r1"})
  \/ Discard
  \/ SetPath({<<"a">>}, {Prim(1)})
  \/ GetPath({<<"a">>})
  \/ Subscribe({<<"a">>})
  \/ Unsubscribe({<<"a">>})
  \/ WhenReady
  \/ Prune
  \/ Receive({UpdateFrame("r1", Version(1, 1), EMPTY, NullVersion)})
  \/ ProcessMessage
  \/ SendTimer

SpecDestroyed == InitOpen /\ [][NextDestroyed]_vars

PublicOperations == {"get", "set", "subscribe", "unsubscribe", "whenReady", "discard"}

\* The step is a public operation on a record that was destroyed before it.
OnDestroyed ==
  /\ obs'.op \in PublicOperations
  /\ recs[obs'.rec].isDestroyed

\* The step changed no record and passed no frame to the connection.
NothingDone ==
  /\ recs' = recs
  /\ conn' = conn
  /\ obs'.sent = <<>>
  /\ obs'.wrote = <<>>
  /\ obs'.fired = {}
  /\ obs'.resolved = 0

\* C14 (as stated): every get, set, subscribe, unsubscribe, whenReady or
\* discard on a destroyed record fails with an error and changes no field
\* of the record and enqueues no message.
C14_DestroyedOperationsFail ==
  [][OnDestroyed => (obs'.threw /\ NothingDone)]_vars

\* C14 (amended): on a destroyed record get, set, subscribe, unsubscribe,
\* whenReady and discard() fail with an error and discard(true) returns
\* without one; none of them changes a field of the record or enqueues a
\* message.
C14_DestroyedOperationsInert ==
  [][OnDestroyed
       => /\ obs'.threw <=> ~(obs'.op = "discard" /\ obs'.silent)
          /\ NothingDone]_vars

\* A set was called on a record the pruner had destroyed, and failed.
C14_Witness ==
  /\ obs.op = "set"
  /\ obs.threw
  /\ recs[obs.rec].isDestroyed
  /\ recs[obs.rec].isReady
  /\ recordsMap[recs[obs.rec].name] = 0

(***************************************************************************)
(* The handshake of a new connection: the endpoint opens, the server sends *)
(* its CONNECTION and AUTH frames, the application authenticates, and the  *)
(* idle callback processes what was received.                              *)
(***************************************************************************)
\* Frames received and not yet processed during the handshake.
MaxBuffered == 3

HandshakeFrames ==
  {CtlFrame("CONNECTION", "CHALLENGE", ""), CtlFrame("CONNECTION", "ACK", ""),
   CtlFrame("AUTH", "ACK", ""), CtlFrame("AUTH", "ACK", "data")}

NextHandshake ==
  \/ EndpointOpen
  \/ Authenticate
  \/ ReceiveUpTo(HandshakeFrames, MaxBuffered)
  \/ ProcessMessage
  \/ ProcessEnd

SpecHandshake == Init /\ [][NextHandshake]_vars

\* The idle callback has nothing left that it will process.
Quiescent == conn.messages = <<>> \/ conn.processIdleCallback # "scheduled"

\* C15: once the events of HandshakeScript have happened and the frames
\* received are processed, the states emitted are AWAITING_CONNECTION,
\* CHALLENGING, AWAITING_AUTHENTICATION, AUTHENTICATING, OPEN in that order,
\* the frames written are a CHALLENGE_RESPONSE with the original URL and one
\* AUTH REQUEST, and the auth callback was called once, with (true, null).
C15_HandshakeStates ==
  (hist.script = Len(HandshakeScript) /\ Quiescent)
    => /\ hist.emitted = <<"AWAITING_CONNECTION", "CHALLENGING",
                           "AWAITING_AUTHENTICATION", "AUTHENTICATING", "OPEN">>
       /\ hist.written = <<CtlFrame("CONNECTION", "CHALLENGE_RESPONSE", "original"),
                           CtlFrame("AUTH", "REQUEST", "authParams")>>
       /\ hist.called = <<<<TRUE, "null">>>>

\* The step is the close of the current endpoint, which neither close() nor
\* a redirect asked for.
NonDeliberateClose ==
  /\ obs'.op = "onclose"
  /\ ~conn.deliberateClose
  /\ ~conn.redirecting

\* C16: a non-deliberate endpoint close after maxReconnectAttempts attempts
\* without an open in between emits MAX_RECONNECTION_ATTEMPTS_REACHED and
\* schedules nothing; before that bound it schedules exactly one reconnect
\* attempt; and once the event was emitted it is not emitted again and no
\* endpoint is created, until the application calls authenticate.
C16_ReconnectBound ==
  [][/\ NonDeliberateClose
          => IF conn.reconnectionAttempt < maxReconnectAttempts
             THEN /\ Len(obs'.scheduled) = 1
                  /\ "MAX_RECONNECTION_ATTEMPTS_REACHED" \notin obs'.events
             ELSE /\ obs'.scheduled = <<>>
                  /\ "MAX_RECONNECTION_ATTEMPTS_REACHED" \in obs'.events
     /\ "MAX_RECONNECTION_ATTEMPTS_REACHED" \in obs'.events
          => /\ obs'.op \in {"onclose", "old.onclose"}
             /\ conn.reconnectionAttempt = maxReconnectAttempts
     /\ (hist.gaveUp /\ obs'.op # "authenticate")
          => /\ obs'.created = 0
             /\ "MAX_RECONNECTION_ATTEMPTS_REACHED" \notin obs'.events]_vars

(***************************************************************************)
(* Reconnecting: the endpoints of a connection open or fail, the reconnect *)
(* timer and the heartbeat timer fire, the application closes and          *)
(* authenticates again.                                                    *)
(***************************************************************************)
NextReconnect ==
  \/ Authenticate
  \/ Close
  \/ EndpointOpen
  \/ EndpointError
  \/ EndpointClosed
  \/ OldEndpointOpen
  \/ OldEndpointClosed
  \/ ReconnectTimer
  \/ HeartbeatTimer

SpecReconnect == Init /\ [][NextReconnect]_vars

\* C17: the timer of the n-th reconnect attempt since the counter was 0 is
\* set to min(maxReconnectInterval, reconnectIntervalIncrement * (n - 1)),
\* which is 0 for the first attempt, does not decrease from one attempt to
\* the next and never exceeds maxReconnectInterval; the counter counts the
\* attempts and is 0 after every open of an endpoint.
C17_ReconnectDelay ==
  [][/\ obs'.scheduled # <<>>
          => LET n == conn'.reconnectionAttempt
             IN  /\ n = conn.reconnectionAttempt + 1
                 /\ obs'.scheduled =
                      <<Min(maxReconnectInterval, reconnectIntervalIncrement * (n - 1))>>
                 /\ n = 1 => obs'.scheduled = <<0>>
                 /\ obs'.scheduled[1] <= maxReconnectInterval
                 /\ obs'.scheduled[1] >=
                      Min(maxReconnectInterval, reconnectIntervalIncrement * (n - 2))
     /\ obs'.op \in {"onopen", "old.onopen"} => conn'.reconnectionAttempt = 0
     /\ conn'.reconnectionAttempt # conn.reconnectionAttempt
          => \/ obs'.scheduled # <<>>
             \/ conn'.reconnectionAttempt = 0]_vars

\* The third attempt in a row was scheduled, with the capped delay.
C17_Witness ==
  /\ obs.op = "onclose"
  /\ conn.reconnectionAttempt = 3
  /\ obs.scheduled = <<maxReconnectInterval>>
  /\ reconnectIntervalIncrement * 2 > maxReconnectInterval

\* C18: a frame of the send queue is written to the transport only with
\* the connection OPEN and the endpoint open, and a flush by flush() or by
\* the send timer with the connection not OPEN or the endpoint not open
\* writes nothing and leaves the queue as it was.
C18_NoWriteUnlessOpen ==
  [][/\ \A k \in 1..Len(obs'.wrote) :
           Written(<<obs'.wrote[k]>>) # <<>> => obs'.wroteIn[k] = <<"OPEN", "OPEN">>
     /\ (/\ obs'.op \in {"flush", "sendTimer"}
         /\ ~(conn.state = "OPEN" /\ conn.endpoint = "OPEN"))
          => /\ obs'.wrote = <<>>
             /\ conn'.queuedMessages = conn.queuedMessages]_vars

\* The send timer fired with a frame in the queue and the handshake not
\* finished.
C18_Witness ==
  /\ obs.op = "sendTimer"
  /\ conn.queuedMessages # <<>>
  /\ conn.state = "AWAITING_AUTHENTICATION"
  /\ conn.endpoint = "OPEN"
  /\ obs.wrote = <<>>

\* The step flushed the send queue: by flush(), by the send timer, or by a
\* send that made the queue longer than maxMessagesPerPacket.
FlushStep ==
  \/ obs'.op \in {"flush", "sendTimer"}
  \/ Len(conn.queuedMessages \o obs'.sent) > maxMessagesPerPacket

\* What a flush of the queue does: the queue is empty afterwards, every
\* write holds at most maxMessagesPerPacket frames, and the writes hold, in
\* order, the frames that were queued and those the step sent.
QueueFlushed ==
  /\ conn'.queuedMessages = <<>>
  /\ \A k \in 1..Len(obs'.wrote) : Len(obs'.wrote[k]) <= maxMessagesPerPacket
  /\ Flatten(obs'.wrote) = conn.queuedMessages \o obs'.sent

\* A call of the application, or the processing of a received frame, that
\* passes frames to send.
SendingStep == obs'.op \in {"getRecord", "set", "prune", "process"}

HeartbeatFrames ==
  {CtlFrame("CONNECTION", "PING", ""), CtlFrame("CONNECTION", "PONG", ""),
   CtlFrame("CONNECTION", "REDIRECT", "redirect")}

NextHeartbeat ==
  \/ EndpointOpen
  \/ EndpointError
  \/ EndpointClosed
  \/ ReconnectTimer
  \/ HeartbeatTimer
  \/ ReceiveUpTo(HeartbeatFrames, MaxBuffered)
  \/ ProcessMessage
  \/ ProcessEnd

SpecHeartbeat == Init /\ [][NextHeartbeat]_vars

Ping == CtlFrame("CONNECTION", "PING", "")

\* C20: a heartbeat tick that finds the tolerance (heartbeatInterval * 3)
\* exceeded closes the endpoint and reports 'heartbeat not received', and
\* the close of the endpoint that follows puts the connection in
\* RECONNECTING; a tick within the tolerance leaves the endpoint as it is
\* and writes one CONNECTION/PING.
C20_HeartbeatTick ==
  [][/\ (obs'.op = "heartbeat" /\ obs'.expired)
          => /\ conn'.endpoint \in {"CLOSING", "CLOSED"}
             /\ "HEARTBEAT_NOT_RECEIVED" \in obs'.events
     /\ (obs.op = "heartbeat" /\ obs.expired /\ obs'.op = "onclose")
          => conn'.state = "RECONNECTING"
     /\ (obs'.op = "heartbeat" /\ ~obs'.expired)
          => /\ conn'.endpoint = conn.endpoint
             /\ obs'.wrote = <<<<Ping>>>>]_vars

(***************************************************************************)
(* The redirect of the endpoint.                                           *)
(***************************************************************************)
\* C21: processing CONNECTION/REDIRECT(url) closes the current endpoint;
\* until the next endpoint is created the state becomes neither
\* RECONNECTING nor CLOSED, and that endpoint is opened at url; an endpoint
\* the reconnect timer or the close of an endpoint creates with no redirect
\* outstanding is opened at the original URL.
C21_Redirect ==
  [][/\ (obs'.op = "process" /\ hist'.redirectTo # "" /\ hist.redirectTo = "")
          => conn'.endpoint \in {"CLOSING", "CLOSED"}
     /\ hist.redirectTo # ""
          => /\ Range(obs'.states) \cap {"RECONNECTING", "CLOSED"} = {}
             /\ obs'.created > 0 => conn'.endpointUrl = hist.redirectTo
     /\ (/\ hist.redirectTo = ""
         /\ obs'.op \in {"reconnectTimer", "onclose"}
         /\ obs'.created > 0)
          => conn'.endpointUrl = "original"]_vars

(***************************************************************************)
(* authenticate after a terminal failure.                                  *)
(***************************************************************************)
TerminalFlag(c) ==
  c.tooManyAuthAttempts \/ c.challengeDenied \/ c.connectionAuthenticationTimeout

\* C22: a terminal flag that is set stays set, and authenticate() called
\* with a terminal flag set reports IS_CLOSED, writes nothing to the
\* transport, creates no endpoint and leaves the connection state as it
\* was.
C22_AuthenticateAfterTerminal ==
  [][TerminalFlag(conn)
       => /\ TerminalFlag(conn')
          /\ obs'.op = "authenticate"
               => /\ "IS_CLOSED" \in obs'.events
                  /\ obs'.wrote = <<>>
                  /\ obs'.created = 0
                  /\ obs'.states = <<>>
                  /\ conn'.state = conn.state
                  /\ conn'.endpoint = conn.endpoint]_vars

\* authenticate() was refused on a deliberately closed connection, where it
\* would otherwise have created an endpoint.
C22_Witness ==
  /\ obs.op = "authenticate"
  /\ "IS_CLOSED" \in obs.events
  /\ TerminalFlag(conn)
  /\ conn.deliberateClose
  /\ conn.state = "CLOSED"
  /\ conn.endpoint = "CLOSED"

(***************************************************************************)
(* The handler operations of an authenticated client on one record: get,   *)
(* set and update with valid and invalid arguments and with a throwing     *)
(* updater, a subscriber below the path written, the server's first        *)
(* UPDATE, and close() taking the connection to CLOSED.                    *)
(***************************************************************************)
HandlerPaths == {<<>>, <<"a">>}

\* A value that is valid at a path and invalid as the whole data.
HandlerValues == {Prim(1)}

Updaters ==
  {[throws |-> TRUE, value |-> U]}
    \cup {[throws |-> FALSE, value |-> v] : v \in HandlerValues}

NextHandler ==
  \/ HandlerGet({"r1"}, {<<"a">>})
  \/ HandlerSet({"r1"}, HandlerPaths, HandlerValues)
  \/ HandlerUpdate({"r1"}, HandlerPaths, Updaters)
  \/ Subscribe({<<"a", "b">>})
  \/ Close
  \/ EndpointClosed
  \/ Receive({UpdateFrame("r1", Version(1, 1), EMPTY, NullVersion)})
  \/ ProcessMessage
  \/ SendTimer

SpecHandler == InitOpen /\ [][NextHandler]_vars

HandlerOperations == {"handler.get", "handler.set", "handler.update"}

\* usages of the record of a name before a call that may create it.
UsagesBefore(i) == IF i <= Len(recs) THEN recs[i].usages ELSE 0

\* C23: a handler get, set or update that ends within the call leaves the
\* record's usages as it was before the call; each operation that settles
\* when the record becomes ready takes usages down by the one handle it
\* holds; and an update that fails changes neither data nor version.
C23_HandlerReleasesHandle ==
  [][/\ (/\ obs'.op \in HandlerOperations
         /\ obs'.op = "handler.set" \/ obs'.settled # <<>> \/ obs'.threw)
          => recs'[obs'.rec].usages = UsagesBefore(obs'.rec)
     /\ \A n \in 1..Len(obs'.settled) :
           /\ obs'.settled[n].released = 1
           /\ (obs'.settled[n].kind = "update" /\ ~obs'.settled[n].ok)
                => ~obs'.settled[n].changed]_vars

(***************************************************************************)
(* The handles of one record of an authenticated client: getRecord and     *)
(* discard, the handler operations, observers that subscribe and           *)
(* unsubscribe, the server's first UPDATE and the pruner.                  *)
(***************************************************************************)
NextUsages ==
  \/ GetRecord({"r1"})
  \/ Discard
  \/ HandlerGet({"r1"}, {<<"a">>})
  \/ HandlerSet({"r1"}, HandlerPaths, HandlerValues)
  \/ HandlerUpdate({"r1"}, {<<"a">>}, Updaters)
  \/ ObserveSubscribe({"r1"})
  \/ ObserveUnsubscribe
  \/ Prune
  \/ Receive({UpdateFrame("r1", Version(1, 1), EMPTY, NullVersion)})
  \/ ProcessMessage
  \/ SendTimer

SpecUsages == InitOpen /\ [][NextUsages]_vars

JsonTrees ==
  {U, Null, Prim(0), EMPTY,
   Obj(<<"t">>, <<Prim(1)>>),
   Obj(<<"t", "a">>, <<Prim(1), Prim(2)>>),
   Obj(<<"a", "t">>, <<Prim(2), Prim(1)>>),
   Obj(<<"a">>, <<Obj(<<"b">>, <<Prim(1)>>)>>),
   Obj(<<"a">>, <<Prim(1)>>),
   Obj(<<"a">>, <<Null>>),
   Obj(<<"a">>, <<Arr(<<>>)>>),
   Obj(<<"a">>, <<Arr(<<Prim(1)>>)>>)}

JsonValues ==
  {Null, Prim(1), EMPTY,
   Obj(<<"g">>, <<U>>),
   Obj(<<"t">>, <<U>>),
   Obj(<<"t", "g">>, <<Prim(1), U>>),
   Obj(<<"g", "t", "a">>, <<U, Prim(1), Prim(2)>>),
   Obj(<<"t", "a">>, <<U, Prim(2)>>),
   Obj(<<"b">>, <<Prim(1)>>),
   Obj(<<"0">>, <<Prim(1)>>),
   Obj(<<"a", "t">>, <<Prim(2), Prim(1)>>),
   Obj(<<"a">>, <<Obj(<<"b">>, <<Prim(1)>>)>>),
   Obj(<<"a">>, <<Arr(<<Prim(1)>>)>>),
   Arr(<<>>),
   Arr(<<Prim(1)>>)}

\* No path names a property of an array other than an index.
JsonPaths == {<<>>, <<"a">>, <<"a", "0">>, <<"t">>}

InitJson ==
  /\ Init!1
  /\ recs = <<>>
  /\ recordsMap = [name \in Names |-> 0]
  /\ recordsVec = <<>>
  /\ \E d \in JsonTrees, p \in JsonPaths, v \in JsonValues :
        obs = [NoObs("arguments") EXCEPT !.data = d, !.path = p, !.value = v]
  /\ hist = [readOnWire |-> {}, closed |-> FALSE, terminal |-> FALSE,
             script |-> -1, emitted |-> <<>>, written |-> <<>>, called |-> <<>>,
             gaveUp |-> FALSE, redirectTo |-> "",
             held |-> [i \in 1..MaxInst |-> 0]]

\* The arguments of the calls, kept from step to step.
Call(op) ==
  [Now(op) EXCEPT !.obs.data = obs.data, !.obs.path = obs.path,
                  !.obs.value = obs.value]

\* jsonPath.set(data, path, value)
JsonSet ==
  /\ obs.op = "arguments"
  /\ Apply([Call("jsonPath.set") EXCEPT
              !.obs.threw = Set(obs.data, obs.path, obs.value) = Throw,
              !.obs.result = Set(obs.data, obs.path, obs.value),
              !.obs.same = SetSame(obs.data, obs.path, obs.value)])

\* jsonPath.get(result, path) on the result of set
JsonGetResult ==
  /\ obs.op = "jsonPath.set"
  /\ ~obs.threw
  /\ Apply([Call("jsonPath.get") EXCEPT
              !.obs.result = obs.result,
              !.obs.threw = Get(obs.result, obs.path) = Throw,
              !.obs.got = Get(obs.result, obs.path)])

\* jsonPath.get(data, path)
JsonGet ==
  /\ obs.op = "arguments"
  /\ Apply([Call("get") EXCEPT
              !.obs.threw = Get(obs.data, obs.path) = Throw,
              !.obs.got = Get(obs.data, obs.path)])

\* jsonPath.set(data, path, got) with the value get returned
JsonSetBack ==
  /\ obs.op = "get"
  /\ ~obs.threw
  /\ Apply([Call("set.back") EXCEPT
              !.obs.got = obs.got,
              !.obs.threw = Set(obs.data, obs.path, obs.got) = Throw,
              !.obs.result = Set(obs.data, obs.path, obs.got),
              !.obs.same = SetSame(obs.data, obs.path, obs.got)])

\* jsonPath.patch(data, value)
JsonPatch ==
  /\ obs.op = "arguments"
  /\ Apply([Call("jsonPath.patch") EXCEPT
              !.obs.result = Patch(obs.data, obs.value),
              !.obs.same = PatchSame(obs.data, obs.value)])

NextJson ==
  \/ JsonSet
  \/ JsonGetResult
  \/ JsonGet
  \/ JsonSetBack
  \/ JsonPatch

SpecJson == InitJson /\ [][NextJson]_vars

\* The object d without the keys whose value is undefined.
WithoutUndefined(d) ==
  LET keep == SelectSeq([i \in 1..Len(d.ks) |-> i], LAMBDA i : d.vs[i] # U)
  IN  Obj([n \in 1..Len(keep) |-> d.ks[keep[n]]],
          [n \in 1..Len(keep) |-> d.vs[keep[n]]])

\* C25: in set(old, undefined, new) on objects, when new without its
\* undefined keys has the keys and values of old, the result is old itself,
\* also for the empty object; when a key of old is undefined in new, the
\* result is another object and does not contain that key.
C25_UndefinedKeysAbsent ==
  (/\ obs.op = "jsonPath.set"
   /\ obs.path = <<>>
   /\ IsObj(obs.data)
   /\ IsObj(obs.value))
    => /\ WithoutUndefined(obs.value) = obs.data
            => obs.same /\ obs.result = obs.data
       /\ \A n \in 1..Len(obs.value.ks) :
             (obs.value.vs[n] = U /\ HasKey(obs.data, obs.value.ks[n]))
               => /\ ~obs.same
                  /\ obs.result # obs.data
                  /\ IsObj(obs.result)
                  /\ ~HasKey(obs.result, obs.value.ks[n])

\* set({}, undefined, {g: undefined}) returned the empty object it was
\* given.
C25_Witness ==
  /\ obs.op = "jsonPath.set"
  /\ obs.path = <<>>
  /\ obs.data = EMPTY
  /\ obs.value = Obj(<<"g">>, <<U>>)
  /\ obs.same
  /\ obs.result = EMPTY

\* A JSON value: no undefined in it.
RECURSIVE IsJson(_)
IsJson(d) ==
  /\ d.k \in {"null", "p", "o", "a"}
  /\ \A i \in 1..Len(d.vs) : IsJson(d.vs[i])

\* C26: when set(d, p, v) succeeds for a JSON value v, get(set(d, p, v), p)
\* succeeds and returns v, whether the old value at p is an object, an array
\* or anything else.
C26_GetOfSet ==
  (/\ obs.op = "jsonPath.get"
   /\ IsJson(obs.value))
    => /\ ~obs.threw
       /\ obs.got = obs.value

\* C27: when get(d, p) succeeds on a JSON tree d, set(d, p, get(d, p))
\* returns d itself, for the root path and for a path missing in d as well.
C27_SetOfGet ==
  (/\ obs.op = "set.back"
   /\ IsJson(obs.data))
    => /\ ~obs.threw
       /\ obs.same
       /\ obs.result = obs.data

\* a and b have the same keys and the same values, in whatever order the
\* keys of the objects are.
RECURSIVE StructurallyEqual(_, _)
StructurallyEqual(a, b) ==
  /\ a.k = b.k
  /\ a.v = b.v
  /\ Len(a.vs) = Len(b.vs)
  /\ IF IsObj(a)
     THEN /\ {a.ks[i] : i \in 1..Len(a.ks)} = {b.ks[i] : i \in 1..Len(b.ks)}
          /\ \A i \in 1..Len(a.ks) :
                StructurallyEqual(a.vs[i], Field(b, a.ks[i]))
     ELSE \A i \in 1..Len(a.vs) : StructurallyEqual(a.vs[i], b.vs[i])

\* C28 as stated: patch(a, b) returns a itself for JSON values a and b with
\* the same keys and values, in whatever order the keys of b are.
C28_PatchOfEqual ==
  (/\ obs.op = "jsonPath.patch"
   /\ IsJson(obs.data)
   /\ IsJson(obs.value)
   /\ StructurallyEqual(obs.data, obs.value))
    => /\ obs.same
       /\ obs.result = obs.data

\* C28 amended: patch(a, a) returns a itself, and patch(a, b) returns a
\* itself for JSON values a and b with the same keys in the same order and
\* the same values.
C28_PatchOfEqualInOrder ==
  (/\ obs.op = "jsonPath.patch"
   /\ IsJson(obs.data)
   /\ IsJson(obs.value)
   /\ obs.data = obs.value)
    => /\ obs.same
       /\ obs.result = obs.data

\* patch({a: {b: 1}}, {a: {b: 1}}) returned the object it was given.
C28_Witness ==
  /\ obs.op = "jsonPath.patch"
  /\ obs.data = Obj(<<"a">>, <<Obj(<<"b">>, <<Prim(1)>>)>>)
  /\ obs.value = obs.data
  /\ obs.same
  /\ obs.result = obs.data

(***************************************************************************)
(* The inbound pipeline alone: frames of the three kinds of topic are      *)
(* received, up to MaxBuffered of them waiting, and the idle callback      *)
(* processes them.                                                         *)
(***************************************************************************)
InboundFrames ==
  {CtlFrame("CONNECTION", "ACK", ""), CtlFrame("AUTH", "ACK", ""),
   CtlFrame("EVENT", "EVT", "")}

NextInbound ==
  \/ EndpointOpen
  \/ ReceiveUpTo(InboundFrames, MaxBuffered)
  \/ ReceiveEmptyFrames
  \/ ProcessMessage
  \/ ProcessEnd

SpecInbound == Init /\ [][NextInbound]_vars

\* C29: a frame received is put behind the frames that wait and a run of
\* the idle callback is scheduled for it; a run of the idle callback takes
\* the frame that waits longest, whatever the number of frames processed
\* before (more than 1024 included), dispatches it to the handler of its
\* topic and leaves the other frames waiting in their order; and with no
\* frame waiting the idle callback stops without an error and is no longer
\* scheduled.
C29_InboundPipeline ==
  [][/\ obs'.op = "onmessage"
          => /\ conn.messages = SubSeq(conn'.messages, 1, Len(conn.messages))
             /\ Len(conn'.messages) = Len(conn.messages) + 1
             /\ conn'.processIdleCallback = "scheduled"
     /\ obs'.op = "process"
          => /\ ~obs'.threw
             /\ obs'.msg = Head(conn.messages)
             /\ obs'.handler = HandlerOf(obs'.msg.topic)
             /\ conn'.messages = Tail(conn.messages)
     /\ obs'.op = "processEnd"
          => /\ ~obs'.threw
             /\ conn'.processIdleCallback = "null"]_vars

(***************************************************************************)
(* Subscribers of one record under the paths a and a.b, with local writes, *)
(* the server's first UPDATE and later UPDATEs.                            *)
(***************************************************************************)
\* The first UPDATE of the server and a later one.
SubscriberFrames ==
  {UpdateFrame("r1", Version(c, 1), d, NullVersion) : c \in {1, 2}, d \in Snapshots}

NextSubscribers ==
  \/ GetRecord({"r1"})
  \/ SetPath({<<"a">>}, PathValues)
  \/ Subscribe(Paths)
  \/ Receive(SubscriberFrames)
  \/ ProcessMessage

SpecSubscribers == InitOpen /\ [][NextSubscribers]_vars

\* The value at path can be read in the new and in the old data of the
\* change e.
Readable(e, path) ==
  /\ Get(Strip(e.newData), path) # Throw
  /\ Get(e.oldData, path) # Throw

\* C30: when a step replaces the data of a record, the callback subscribed
\* under a path is invoked if and only if the value at the path in the new
\* data is not the very value at the path in the old data, and it is
\* invoked with the value at the path in the new data, which is what the
\* record's data holds at the path after the step.
C30_SubscribersInvoked ==
  [][\A n \in 1..Len(obs'.applied) :
        LET e == obs'.applied[n]
            subs == recs[e.rec].subs
        IN  /\ \A k \in 1..Len(subs) :
                  Readable(e, subs[k])
                    => (<<e.rec, subs[k]>> \in obs'.fired
                          <=> ~RefEq(e.newData, e.oldData, subs[k]))
            /\ \A f \in obs'.firedWith :
                  f[1] = e.rec
                    => /\ f[3] = Get(Strip(e.newData), f[2])
                       /\ f[3] = Get(recs'[e.rec].data, f[2])]_vars

\* C31: an UPDATE a step sends for a record carries as previous version
\* the version the record had when it was dispatched (the version of the
\* UPDATE the step adopted as the initial snapshot, else the version before
\* the step); after the step the record's version is the version sent, and
\* its counter is greater than that of the previous version.
C31_UpdateVersions ==
  [][\A n \in 1..Len(obs'.sent) :
        (obs'.sent[n].topic = "RECORD" /\ obs'.sent[n].action = "UPDATE")
          => LET m == obs'.sent[n]
                 i == recordsMap[m.name]
                 before == IF obs'.op = "process" THEN obs'.msg.version
                           ELSE recs[i].version
             IN  /\ i # 0
                 /\ m.prev = before
                 /\ recs'[i].version = m.version
                 /\ m.version.c > before.c]_vars

\* The first UPDATE of the server was adopted over queued writes and the
\* follow-up UPDATE carries the server's version as the previous one.
C31_Witness ==
  /\ obs.op = "process"
  /\ Len(obs.sent) = 1
  /\ obs.sent[1].action = "UPDATE"
  /\ obs.sent[1].prev = obs.msg.version
  /\ obs.sent[1].prev # NullVersion
  /\ recs[1].version = obs.sent[1].version

(***************************************************************************)
(* The pruner under fair scheduling: the idle callback of _prune re-arms   *)
(* its own timer, so a run of the pruner that is due happens, and so does  *)
(* the timer that flushes the queue of outgoing messages.                  *)
(***************************************************************************)
NextPruner ==
  \/ GetRecord({"r1"})
  \/ Discard
  \/ Prune
  \/ Close
  \/ EndpointClosed
  \/ Receive({UpdateFrame("r1", Version(1, 1), EMPTY, NullVersion)})
  \/ ProcessMessage
  \/ SendTimer

SpecPruner ==
  /\ InitOpen
  /\ [][NextPruner]_vars
  /\ WF_vars(Prune)
  /\ WF_vars(SendTimer)

\* The UNSUBSCRIBE frames for name among the frames of sent.
Unsubscribes(sent, name) ==
  {n \in 1..Len(sent) : sent[n] = UnsubscribeFrame(name)}

\* Record i is live, ready and without a handle.
Prunable(i) ==
  IF i > Len(recs) THEN FALSE
  ELSE recs[i].isReady /\ recs[i].usages = 0 /\ ~recs[i].isDestroyed

\* Record i is destroyed, or its usages did not stay 0.
Retired(i) ==
  IF i > Len(recs) THEN FALSE
  ELSE recs[i].isDestroyed \/ recs[i].usages # 0

\* C32: a run of the pruner destroys every registered record that is ready
\* with usages 0: it leaves the map and the sequence, its destroy event is
\* emitted, and one UNSUBSCRIBE(name) is enqueued if it was subscribed and
\* none otherwise; and a live record that is ready with usages 0 is
\* eventually destroyed unless its usages leaves 0.
C32_PrunerDestroys ==
  /\ [][obs'.op = "prune"
          => \A n \in 1..Len(recordsVec) :
                LET i == recordsVec[n]
                IN  (recs[i].isReady /\ recs[i].usages = 0)
                      => /\ recs'[i].isDestroyed
                         /\ recordsMap'[recs[i].name] = 0
                         /\ i \notin Range(recordsVec')
                         /\ i \in obs'.destroyed
                         /\ Cardinality(Unsubscribes(obs'.sent, recs[i].name))
                              = IF recs[i].isSubscribed THEN 1 ELSE 0]_vars
  /\ \A i \in 1..MaxInst : Prunable(i) ~> Retired(i)

\* A run of the pruner destroyed a subscribed record and enqueued its
\* UNSUBSCRIBE.
C32_Witness ==
  /\ obs.op = "prune"
  /\ \E i \in obs.destroyed :
        /\ recs[i].isDestroyed
        /\ recordsMap[recs[i].name] = 0
        /\ Cardinality(Unsubscribes(obs.sent, recs[i].name)) = 1

\* Record i was destroyed while it stayed registered: the pruner takes a
\* record out of the map before it destroys it, the CLOSED state does not.
DestroyedInRegistry(i) ==
  IF i > Len(recs) THEN FALSE
  ELSE recs[i].isDestroyed /\ recordsMap[recs[i].name] = i

\* Record i is not the map's value for its name.
Unregistered(i) ==
  IF i > Len(recs) THEN FALSE
  ELSE recordsMap[recs[i].name] # i

\* The step that takes the connection to CLOSED destroys every live record
\* and enqueues no UNSUBSCRIBE.
ClosedDestroysAll ==
  [][(conn.state # "CLOSED" /\ conn'.state = "CLOSED")
       => \A i \in 1..Len(recs) :
             /\ recs'[i].isDestroyed
             /\ Unsubscribes(obs'.sent, recs[i].name) = {}]_vars

\* Destroying a destroyed record sends nothing and changes no field of it.
SecondDestroyInert ==
  [][\A i \in obs'.destroyed :
        (i <= Len(recs) /\ recs[i].isDestroyed)
          => /\ recs'[i] = recs[i]
             /\ Unsubscribes(obs'.sent, recs[i].name) = {}]_vars

\* C33: when the connection state becomes CLOSED every live record is
\* destroyed without an UNSUBSCRIBE, whatever its ready state, usages and
\* queued patches; a record so destroyed is eventually removed from the
\* registry; and destroying a record again sends nothing and changes none
\* of its fields.
C33_ClosedDestroysRecords ==
  /\ ClosedDestroysAll
  /\ SecondDestroyInert
  /\ \A i \in 1..MaxInst : DestroyedInRegistry(i) ~> Unregistered(i)

\* C34: every record the registry map holds is live, and the record a
\* getRecord call returned is live.
C34_RegistryHoldsLiveRecords ==
  /\ \A name \in Names :
        recordsMap[name] # 0 => ~recs[recordsMap[name]].isDestroyed
  /\ obs.op = "getRecord" => ~recs[obs.rec].isDestroyed

\* C35: the map and the sequence of the registry hold the same records:
\* the sequence has no duplicates and no holes, every map value occurs in
\* the sequence, and every element of the sequence is the map's value for
\* its name.
C35_MapAndSequenceAgree ==
  /\ \A m, n \in 1..Len(recordsVec) : m # n => recordsVec[m] # recordsVec[n]
  /\ \A n \in 1..Len(recordsVec) : recordsVec[n] \in 1..Len(recs)
  /\ \A name \in Names :
        recordsMap[name] # 0 => recordsMap[name] \in Range(recordsVec)
  /\ \A n \in 1..Len(recordsVec) :
        recordsMap[recs[recordsVec[n]].name] = recordsVec[n]

\* A run of the pruner removed the first record of the sequence and moved
\* the last one into its place.
C35_Witness ==
  /\ obs.op = "prune"
  /\ obs.destroyed = {1}
  /\ recordsVec = <<2>>
  /\ recordsMap[recs[2].name] = 2
  /\ recordsMap[recs[1].name] = 0

\* C36: when the first UPDATE of a record arrives after a root replacement
\* set(value) was made on it (the patch queue is gone), the record becomes
\* ready with the data it had locally, not the server's snapshot, and the
\* step dispatches exactly one UPDATE, which carries that data.
C36_RootSetKept ==
  [][(/\ obs'.op = "process"
      /\ obs'.msg.action = "UPDATE"
      /\ Target(obs'.msg) # 0
      /\ ~recs[Target(obs'.msg)].isReady
      /\ ~recs[Target(obs'.msg)].isDestroyed
      /\ ~recs[Target(obs'.msg)].hasPatchQueue)
       => LET i == Target(obs'.msg)
          IN  /\ recs'[i].isReady
              /\ recs'[i].data = recs[i].data
              /\ Len(UpdatesIn(obs'.sent)) = 1
              /\ UpdatesIn(obs'.sent)[1].data = recs[i].data]_vars

(***************************************************************************)
(* A record across reconnects: handles are taken, paths are written before *)
(* and after the record is ready, the endpoint closes and is reopened by   *)
(* the reconnect timer, the handshake is repeated, the record is READ      *)
(* again, and the server sends UPDATEs.                                    *)
(***************************************************************************)
ReReadFrames ==
  {CtlFrame("CONNECTION", "ACK", ""), CtlFrame("AUTH", "ACK", "")}
    \cup UpdateFrames({"r1"}, {Obj(<<"a">>, <<Prim(1)>>)})

NextReRead ==
  \/ GetRecord({"r1"})
  \/ SetPath(Paths, {Prim(1)})
  \/ EndpointOpen
  \/ EndpointClosed
  \/ ReconnectTimer
  \/ Receive(ReReadFrames)
  \/ ProcessMessage
  \/ SendTimer

SpecReRead == InitOpen /\ [][NextReRead]_vars

\* C37: a ready record stays ready and a ready record has a version;
\* 'ready' is emitted only by the step that makes a record ready, so once
\* per instance; the first UPDATE a live record processes makes it ready
\* unless the handler throws, and then the idle callback is dead for good
\* and no later frame is processed; so every later UPDATE finds the record
\* ready and is decided by the version comparison: dropped without a
\* change, or adopted with its version.
C37_ReadyOnce ==
  [][/\ \A i \in 1..Len(recs) :
           /\ recs[i].isReady => recs'[i].isReady
           /\ recs'[i].isReady => recs'[i].version # NullVersion
     /\ conn.processIdleCallback = "dead" => conn'.processIdleCallback = "dead"
     /\ "ready" \in obs'.events
          => /\ obs'.op = "process"
             /\ Target(obs'.msg) # 0
             /\ ~recs[Target(obs'.msg)].isReady
             /\ recs'[Target(obs'.msg)].isReady
     /\ (/\ obs'.op = "process"
         /\ obs'.msg.action = "UPDATE"
         /\ Target(obs'.msg) # 0
         /\ ~recs[Target(obs'.msg)].isDestroyed)
          => LET i == Target(obs'.msg)
             IN  IF recs[i].isReady
                 THEN /\ "ready" \notin obs'.events
                      /\ IF compareVersions(recs[i].version, obs'.msg.version)
                         THEN recs'[i] = recs[i]
                         ELSE recs'[i].version = obs'.msg.version
                 ELSE \/ recs'[i].isReady
                      \/ obs'.threw /\ conn'.processIdleCallback = "dead"]_vars

\* The handshake after a reconnect ended: the connection is OPEN again and
\* the record, ready since before the endpoint closed, is READ again; it
\* stays ready with its version and no 'ready' is emitted.
C37_Witness ==
  /\ obs.op = "process"
  /\ obs.msg = CtlFrame("AUTH", "ACK", "")
  /\ obs.states = <<"OPEN">>
  /\ conn.endpoint = "OPEN"
  /\ obs.sent = <<ReadFrame("r1")>>
  /\ Len(recs) = 1
  /\ recs[1].isReady
  /\ recs[1].isSubscribed
  /\ recs[1].version # NullVersion
  /\ "ready" \notin obs.events

\* The endpoints that are connecting or open: the current one and those
\* replaced before they closed.
LiveEndpoints ==
  {k \in 0..Len(conn.old) :
     (IF k = 0 THEN conn.endpoint ELSE conn.old[k]) \in {"CONNECTING", "OPEN"}}

\* C38: at most one endpoint is connecting or open, and a heartbeat
\* interval runs only while the current endpoint is open, the interval of
\* no replaced endpoint being left running (the reconnect timer is a single
\* handle that _tryReconnect arms only when it is free).
C38_OneTimerOneEndpoint ==
  /\ Cardinality(LiveEndpoints) <= 1
  /\ conn.orphanIntervals = 0
  /\ conn.heartbeatInterval = "armed" => conn.endpoint = "OPEN"

====
